---- MODULE Spec2Model ----
(***************************************************************************)
(* Model of the VillageSQL Victionary (villagesql/schema/victionary_client)*)
(* and of the statements that drive it: INSTALL / UNINSTALL EXTENSION      *)
(* (villagesql/veb/sql_extension.cc), DDL staging                          *)
(* (villagesql/sql/metadata_modifier.cc) and custom type resolution        *)
(* (villagesql/types/util.cc).                                             *)
(*                                                                         *)
(* Strings are sequences of character codes, so that case folding, key     *)
(* concatenation and ordering are computed as the code computes them.      *)
(*                                                                         *)
(* The specifications of the module share its variables and Init:         *)
(*   MapSpec - one SystemTableMap driven by arbitrary staged operations;   *)
(*   Spec    - the six maps of the Victionary driven by SQL statements of  *)
(*             concurrent sessions, with the MDL locks and the rwlock;     *)
(*   CallSpec, AlterSpec - Spec restricted to some kinds of statement;     *)
(*   RefSpec, ScanSpec, VdfSpec, BindSpec, WriteSpec, InitSpec, NormSpec,  *)
(*   SemverSpec, RenameSpec, RowSpec - one component each, the other       *)
(*             variables left unchanged.                                   *)
(***************************************************************************)
EXTENDS Integers, Sequences, FiniteSets, TLC

(***************************************************************************)
(* Bounds                                                                  *)
(***************************************************************************)
\* MapSpec: number of operations staged over a whole run
MaxOps == 2
\* Spec: number of statements started over a whole run
MaxStmts == 5

(***************************************************************************)
(* Strings                                                                 *)
(***************************************************************************)
\* character codes used by the model
Ch == [plus |-> 43, minus |-> 45, dot |-> 46, zero |-> 48, one |-> 49,
       two |-> 50,
       C |-> 67, D |-> 68, E |-> 69, T |-> 84,
       a |-> 97, b |-> 98, c |-> 99, d |-> 100, e |-> 101, f |-> 102,
       t |-> 116, u |-> 117]

EmptyStr == << >>

\* casedn() of the identifier collations: ASCII upper case letters fold to
\* lower case, every other character is kept
casedn(name) ==
  [i \in DOMAIN name |-> IF name[i] >= 65 /\ name[i] <= 90
                         THEN name[i] + 32 ELSE name[i]]

normalize_extension_name(name) == casedn(name)

normalize_type_name(name) == casedn(name)

normalize_column_name(name) == casedn(name)

(***************************************************************************)
(* Nullable pointers: << >> is nullptr, <<e>> points to e                  *)
(***************************************************************************)
nullptr == << >>

(***************************************************************************)
(* std::map<std::string, std::shared_ptr<EntryType>>                       *)
(***************************************************************************)
EmptyMap == [k \in {} |-> 0]

MapPut(m, k, v) == [x \in (DOMAIN m) \cup {k} |-> IF x = k THEN v ELSE m[x]]

MapErase(m, k) == [x \in (DOMAIN m) \ {k} |-> m[x]]

(***************************************************************************)
(* PendingOperation<EntryType>                                             *)
(***************************************************************************)
\* key_type() : the default constructed key of an INSERT
DefaultKey == [str |-> EmptyStr]

PendingOperation(type, e, k) == [op_type |-> type, entry |-> e, key |-> k]

(***************************************************************************)
(* SystemTableMap: pure parts of the methods.  A map is a record           *)
(* [committed, uncommitted]; uncommitted maps a session to its list.       *)
(***************************************************************************)
get_committed(committed, key_str) ==
  IF key_str \in DOMAIN committed THEN <<committed[key_str]>> ELSE nullptr

\* the loop of get(): the most recent operation of the list on key_str
RECURSIVE most_recent_op(_, _, _)
most_recent_op(ops, key_str, found) ==
  IF ops = << >> THEN found
  ELSE LET op == Head(ops)
           op_key == IF op.entry # nullptr THEN op.entry[1].key.str
                     ELSE op.key.str
       IN most_recent_op(Tail(ops), key_str,
            IF op_key = key_str \/
               (op.op_type = "UPDATE" /\ op.key.str = key_str)
            THEN <<op>> ELSE found)

\* a get() that stops at the first operation on the key
first_op_get(committed, ops, key_str) ==
  LET hits == {i \in 1..Len(ops) :
                 LET op == ops[i]
                     op_key == IF op.entry # nullptr THEN op.entry[1].key.str
                               ELSE op.key.str
                 IN op_key = key_str \/
                    (op.op_type = "UPDATE" /\ op.key.str = key_str)}
  IN IF hits = {} THEN get_committed(committed, key_str)
     ELSE LET i == CHOOSE j \in hits : \A h \in hits : j <= h
          IN IF ops[i].op_type = "DELETE" THEN nullptr ELSE ops[i].entry

\* get(thd, key_str) where ops is the list m_uncommitted holds for thd
\* (the empty list when it holds none, or when thd is null)
get(committed, ops, key_str) ==
  LET most_recent == most_recent_op(ops, key_str, nullptr)
  IN IF most_recent # nullptr
     THEN IF most_recent[1].op_type = "DELETE" THEN nullptr
          ELSE most_recent[1].entry
     ELSE get_committed(committed, key_str)

\* an iteration that leaves the old key of a renaming UPDATE in the map
commit_op_keeping_old_key(committed, op) ==
  IF op.op_type \in {"INSERT", "UPDATE"}
  THEN MapPut(committed, op.entry[1].key.str, op.entry[1])
  ELSE MapErase(committed, op.key.str)

\* one iteration of the loop of commit()
commit_op(committed, op) ==
  IF op.op_type \in {"INSERT", "UPDATE"}
  THEN LET key == op.entry[1].key.str
           old_key == op.key.str
           assigned == MapPut(committed, key, op.entry[1])
       IN IF op.op_type = "UPDATE" /\ old_key # EmptyStr /\ old_key # key
          THEN MapErase(assigned, old_key)
          ELSE assigned
  ELSE MapErase(committed, op.key.str)

\* a commit() that walks the list back to front
RECURSIVE commit_ops_reversed(_, _)
commit_ops_reversed(committed, ops) ==
  IF ops = << >> THEN committed
  ELSE commit_ops_reversed(commit_op(committed, ops[Len(ops)]),
                           SubSeq(ops, 1, Len(ops) - 1))

\* the loop of commit(), front to back
RECURSIVE commit_ops(_, _)
commit_ops(committed, ops) ==
  IF ops = << >> THEN committed
  ELSE commit_ops(commit_op(committed, Head(ops)), Tail(ops))

(***************************************************************************)
(* Ordered scans of the committed map                                      *)
(***************************************************************************)
\* operator< of std::string
RECURSIVE StrLess(_, _)
StrLess(x, y) ==
  IF y = << >> THEN FALSE
  ELSE IF x = << >> THEN TRUE
  ELSE IF Head(x) # Head(y) THEN Head(x) < Head(y)
  ELSE StrLess(Tail(x), Tail(y))

\* the entries of the keys of ks, in the order of the map's iterator
RECURSIVE InKeyOrder(_, _)
InKeyOrder(committed, ks) ==
  IF ks = {} THEN << >>
  ELSE LET k == CHOOSE x \in ks : \A y \in ks \ {x} : StrLess(x, y)
       IN <<committed[k]>> \o InKeyOrder(committed, ks \ {k})

get_all_committed(committed) == InKeyOrder(committed, DOMAIN committed)

\* [lower_bound(prefix_str), upper) with upper = prefix_str, last byte + 1
\* (a byte: 255 wraps to 0)
get_prefix_committed(committed, prefix_str) ==
  IF prefix_str = EmptyStr THEN << >>
  ELSE LET upper == [prefix_str EXCEPT ![Len(prefix_str)] = (@ + 1) % 256]
       IN InKeyOrder(committed,
            {k \in DOMAIN committed : ~StrLess(k, prefix_str) /\ StrLess(k, upper)})

has_prefix_committed(committed, prefix_str) ==
  IF prefix_str = EmptyStr THEN FALSE
  ELSE LET upper == [prefix_str EXCEPT ![Len(prefix_str)] = (@ + 1) % 256]
       IN \E k \in DOMAIN committed : ~StrLess(k, prefix_str) /\ StrLess(k, upper)

(***************************************************************************)
(* SystemTableMap: the methods that change the map                         *)
(***************************************************************************)
\* m_uncommitted[&thd].link_in_list(op, &op->next), shared by every session
link_in_every_list(uncommitted, thd, op) ==
  [t \in DOMAIN uncommitted |-> Append(uncommitted[t], op)]

\* m_uncommitted[&thd].link_in_list(op, &op->next)
link_in_list(uncommitted, thd, op) ==
  [uncommitted EXCEPT ![thd] = Append(@, op)]

add_uncommitted_insert_or_update(map, thd, type, entry, key) ==
  [map EXCEPT !.uncommitted =
     link_in_list(@, thd, PendingOperation(type, <<entry>>, key))]

add_uncommitted_delete(map, thd, key) ==
  [map EXCEPT !.uncommitted =
     link_in_list(@, thd, PendingOperation("DELETE", nullptr, key))]

MarkForInsertion(map, thd, entry) ==
  add_uncommitted_insert_or_update(map, thd, "INSERT", entry, DefaultKey)

MarkForUpdate(map, thd, entry, old_key) ==
  add_uncommitted_insert_or_update(map, thd, "UPDATE", entry, old_key)

\* a MarkForDeletion that stages nothing
mark_no_deletion(map, thd, key) == map

MarkForDeletion(map, thd, key) == add_uncommitted_delete(map, thd, key)

has_uncommitted(map, thd) == map.uncommitted[thd] # << >>

\* a commit() that drops the pending lists of all sessions
commit_clearing_every_list(map, thd) ==
  [committed |-> commit_ops(map.committed, map.uncommitted[thd]),
   uncommitted |-> [t \in DOMAIN map.uncommitted |-> << >>]]

commit(map, thd) ==
  [committed |-> commit_ops(map.committed, map.uncommitted[thd]),
   uncommitted |-> [map.uncommitted EXCEPT ![thd] = << >>]]

\* a rollback() that replays the deletions it discards
rollback_replaying_deletes(map, thd) ==
  [committed |-> commit_ops(map.committed,
                   SelectSeq(map.uncommitted[thd],
                             LAMBDA op : op.op_type = "DELETE")),
   uncommitted |-> [map.uncommitted EXCEPT ![thd] = << >>]]

rollback(map, thd) ==
  [committed |-> map.committed,
   uncommitted |-> [map.uncommitted EXCEPT ![thd] = << >>]]

(***************************************************************************)
(* State                                                                   *)
(***************************************************************************)
VARIABLES
  \* --- MapSpec: one SystemTableMap and its callers ---
  tmap,        \* the map: [committed, uncommitted]
  staged,      \* number of operations staged so far
  snap,        \* per session: m_committed when its list last became non-empty
  clean,       \* per session: no other session committed since snap was taken
  last,        \* the last commit() or rollback(): its session, list, m_committed before
  \* --- Spec: the Victionary and the statements ---
  vic,         \* the six maps of VictionaryClient
  m_lock,      \* VictionaryClient::m_lock: [writer, readers]
  mdl,         \* per session: the EXTENSION metadata locks it holds
  pc,          \* per session: position in its statement
  stmt,        \* per session: the locals of its statement
  arena,       \* per session: shared_ptr copies registered on thd->mem_root
  share_arena, \* shared_ptr copies registered on the TABLE_SHARE mem_root
  udfs,        \* extensions whose VDFs are registered with the UDF subsystem
  so_loaded,   \* registrations whose shared object is loaded
  next_obj,    \* number of heap objects and registrations created so far
  started,     \* number of statements started so far
  host,        \* the host server: its setting, the user table and its lock
  \* --- RefSpec: the shared_ptr of one map's entries and their holders ---
  rmap,        \* m_committed: key string -> the object its shared_ptr owns
  use_count,   \* per object: the strong count of its control block
  roots,       \* per MEM_ROOT: the ref_holder copies its cleanups will delete
  owned,       \* the shared_ptr copies acquire_client_managed handed out
  ret,         \* the last call: what it was given and what it returned
  \* --- ScanSpec: the prefix scans of the columns map ---
  columns_committed, \* m_committed of the columns map
  scan,        \* the last scan: what it was given and what it returned
  \* --- VdfSpec: one vdf_handler and the extension's callbacks ---
  vdf_stmt,    \* the statement that binds the VDF: position, descriptor, rows
  m_active,    \* vdf_handler::m_active
  m_user_data, \* vdf_handler::m_vdf_args.user_data
  callbacks,   \* the extension: calls of prerun and postrun, user_data it holds
  \* --- BindSpec: the arguments of a VDF call at bind time ---
  bind,        \* the last ValidateAndConvertVDFArguments: inputs and outcome
  \* --- WriteSpec: a persistent map and the rows of its backing table ---
  wmap,        \* the map: [committed, uncommitted]
  rows,        \* the keys of the rows of the backing table
  rows_saved,  \* the rows at the start of the host's transaction
  wres,        \* the last write_uncommitted_to_table: result and log
  \* --- InitSpec: VictionaryClient::init called by several threads ---
  m_initialized,  \* std::atomic<bool> m_initialized
  m_initializing, \* std::atomic<bool> m_initializing
  tables,      \* the maps: how often they were reloaded, whether fully
  lock_inits,  \* number of mysql_rwlock_init calls on m_lock
  caller,      \* per thread: position in init, what its checks saw, result
  \* --- NormSpec: the key strings of two names under each casing setting ---
  norm,        \* the last pair of keys built: the names and the key strings
  \* --- SemverSpec: three version strings parsed and compared ---
  sem,         \* the last strings, the Semver parsed from each, the comparisons
  \* --- RenameSpec: one ALTER TABLE with RENAME TO and a column change ---
  acols,       \* the columns map: [committed, uncommitted]
  alt,         \* the user table as the host has it, and the ALTER under way
  \* --- RowSpec: the columns map and the rows of villagesql.custom_columns ---
  ccols,       \* the columns map: [committed, uncommitted]
  crows,       \* the rows of custom_columns: <<db_name, table_name, column_name>>
  cwrite       \* the statement under way: position, table name, rows before, log

mapvars == <<tmap, staged, snap, clean, last>>

lifevars == <<vic, m_lock, mdl, pc, stmt, arena, share_arena, udfs, so_loaded,
              next_obj, started, host>>

refvars == <<rmap, use_count, roots, owned, ret>>

\* the columns map of the prefix scans and the last scan
scanvars == <<columns_committed, scan>>

\* the vdf_handler of a statement and the extension it calls
vdfvars == <<vdf_stmt, m_active, m_user_data, callbacks>>

bindvars == <<bind>>

writevars == <<wmap, rows, rows_saved, wres>>

initvars == <<m_initialized, m_initializing, tables, lock_inits, caller>>

normvars == <<norm>>

semvars == <<sem>>

renvars == <<acols, alt>>

rowvars == <<ccols, crows, cwrite>>

\* the variables of the specifications of single components
unitvars == <<refvars, scanvars, vdfvars, bindvars, writevars, initvars,
             normvars,
             semvars,
             renvars,
             rowvars>>

vars == <<mapvars, lifevars, unitvars>>

Sessions == {"thd1", "thd2"}

(***************************************************************************)
(* MapSpec: a SystemTableMap under arbitrary staged operations.  Every     *)
(* method runs under the VictionaryClient lock, so each is one step.       *)
(***************************************************************************)
MapSessions == {"thd1", "thd2"}

MapKeys == {<<Ch.a>>, <<Ch.b>>}

MapKey(k) == [str |-> k]

MapEntry(k, v) == [key |-> MapKey(k), val |-> v]

NoSessionLists == [t \in MapSessions |-> << >>]

NoLast == [kind |-> "none", thd |-> "none", ops |-> << >>, pre |-> EmptyMap,
           snap |-> EmptyMap, clean |-> FALSE]

MapInit ==
  /\ tmap = [committed |-> MapPut(EmptyMap, <<Ch.a>>, MapEntry(<<Ch.a>>, 0)),
             uncommitted |-> NoSessionLists]
  /\ staged = 0
  /\ snap = [t \in MapSessions |-> EmptyMap]
  /\ clean = [t \in MapSessions |-> FALSE]
  /\ last = NoLast

\* the bookkeeping of a staging call of thd
MapStaged(thd) ==
  /\ staged' = staged + 1
  /\ IF tmap.uncommitted[thd] = << >>
     THEN /\ snap' = [snap EXCEPT ![thd] = tmap.committed]
          /\ clean' = [clean EXCEPT ![thd] = TRUE]
     ELSE UNCHANGED <<snap, clean>>
  /\ UNCHANGED last

MapMarkForInsertion(thd, k) ==
  /\ staged < MaxOps
  /\ tmap' = MarkForInsertion(tmap, thd, MapEntry(k, staged + 1))
  /\ MapStaged(thd)

MapMarkForUpdate(thd, k, old) ==
  /\ staged < MaxOps
  /\ tmap' = MarkForUpdate(tmap, thd, MapEntry(k, staged + 1), MapKey(old))
  /\ MapStaged(thd)

MapMarkForDeletion(thd, k) ==
  /\ staged < MaxOps
  /\ tmap' = MarkForDeletion(tmap, thd, MapKey(k))
  /\ MapStaged(thd)

\* commit() and rollback() return at once when the session has no list
MapCommit(thd) ==
  /\ has_uncommitted(tmap, thd)
  /\ tmap' = commit(tmap, thd)
  /\ last' = [kind |-> "commit", thd |-> thd, ops |-> tmap.uncommitted[thd],
              pre |-> tmap.committed, snap |-> snap[thd], clean |-> clean[thd]]
  /\ clean' = [t \in MapSessions |-> IF t = thd THEN clean[t] ELSE FALSE]
  /\ UNCHANGED <<staged, snap>>

MapRollback(thd) ==
  /\ has_uncommitted(tmap, thd)
  /\ tmap' = rollback(tmap, thd)
  /\ last' = [kind |-> "rollback", thd |-> thd, ops |-> tmap.uncommitted[thd],
              pre |-> tmap.committed, snap |-> snap[thd], clean |-> clean[thd]]
  /\ UNCHANGED <<staged, snap, clean>>

MapNext ==
  \/ \E thd \in MapSessions, k \in MapKeys :
       /\ MapMarkForInsertion(thd, k)
       /\ UNCHANGED <<lifevars, unitvars>>
  \/ \E thd \in MapSessions, k \in MapKeys, old \in MapKeys :
       /\ MapMarkForUpdate(thd, k, old)
       /\ UNCHANGED <<lifevars, unitvars>>
  \/ \E thd \in MapSessions, k \in MapKeys :
       /\ MapMarkForDeletion(thd, k)
       /\ UNCHANGED <<lifevars, unitvars>>
  \/ \E thd \in MapSessions :
       /\ MapCommit(thd)
       /\ UNCHANGED <<lifevars, unitvars>>
  \/ \E thd \in MapSessions :
       /\ MapRollback(thd)
       /\ UNCHANGED <<lifevars, unitvars>>

(***************************************************************************)
(* Keys and entries of the six maps.  A key keeps the strings it was built *)
(* from and the normalized string the map is ordered by.                   *)
(***************************************************************************)
\* db and table names follow lower_case_table_names
normalize_database_name(name) ==
  IF host.lower_case_table_names # 0 THEN casedn(name) ELSE name

\* a table name lowered whatever the setting
normalize_table_name_lowered(name) == casedn(name)

normalize_table_name(name) ==
  IF host.lower_case_table_names # 0 THEN casedn(name) ELSE name

Dot == <<Ch.dot>>

ExtensionKey(extension_name) ==
  [extension_name |-> extension_name,
   str |-> normalize_extension_name(extension_name)]

ExtensionEntry(key, extension_version) ==
  [key |-> key, extension_version |-> extension_version]

\* a descriptor key whose string keeps the name as typed
raw_descriptor_key(extension_name, extension_version) ==
  [extension_name |-> extension_name,
   extension_version |-> extension_version,
   str |-> extension_name \o Dot \o extension_version]

ExtensionDescriptorKey(extension_name, extension_version) ==
  [extension_name |-> extension_name,
   extension_version |-> extension_version,
   str |-> normalize_extension_name(extension_name) \o Dot \o
           normalize_extension_name(extension_version)]

\* registration : the handle of the loaded shared object
ExtensionDescriptor(key, registration) ==
  [key |-> key, registration |-> registration]

TypeDescriptorKey(type_name, extension_name, extension_version) ==
  [type_name |-> type_name,
   extension_name |-> extension_name,
   extension_version |-> extension_version,
   str |-> normalize_type_name(type_name) \o Dot \o
           normalize_extension_name(extension_name) \o Dot \o
           normalize_extension_name(extension_version)]

\* the prefix key of a type name and an optional extension name
TypeDescriptorKeyPrefix(type_name, extension_name) ==
  normalize_type_name(type_name) \o Dot \o
  (IF extension_name = EmptyStr THEN EmptyStr
   ELSE normalize_extension_name(extension_name) \o Dot)

\* so : the shared object its encode / decode / compare pointers point into;
\* id : the address of the object
TypeDescriptor(key, so, id) == [key |-> key, so |-> so, id |-> id]

\* a context without parameters: its key string is the descriptor's
TypeContextKey(descriptor_key) ==
  [descriptor_key |-> descriptor_key, str |-> descriptor_key.str]

\* descriptor : the raw, non-owning pointer to the TypeDescriptor object
TypeContext(key, descriptor, id) ==
  [key |-> key, descriptor |-> descriptor, id |-> id]

ColumnKey(db, table, column) ==
  [db |-> db, table |-> table, column |-> column,
   str |-> normalize_database_name(db) \o Dot \o
           normalize_table_name(table) \o Dot \o
           normalize_column_name(column)]

\* the prefix key of the columns of one table
ColumnKeyPrefix(db, table) ==
  normalize_database_name(db) \o Dot \o
  (IF table = EmptyStr THEN EmptyStr ELSE normalize_table_name(table) \o Dot)

ColumnEntry(key, extension_name, extension_version, type_name) ==
  [key |-> key, extension_name |-> extension_name,
   extension_version |-> extension_version, type_name |-> type_name]

(***************************************************************************)
(* The world of Spec: one extension file that declares one type, typed in  *)
(* lower or upper case by the statements, and one user table with one      *)
(* column of that type.                                                    *)
(***************************************************************************)
ExtNames == {<<Ch.e>>, <<Ch.E>>}

\* the version of the manifest of the extension file
ManifestVersion == <<Ch.one>>

\* the type the extension file registers
ManifestType == <<Ch.t>>

UserDb == <<Ch.d>>

UserTable == <<Ch.a>>

UserColumn == <<Ch.c>>

MapNames == <<"properties", "columns", "extensions", "type_descriptors",
              "extension_descriptors", "type_contexts">>

NoOps == [t \in Sessions |-> << >>]

NoMap == [committed |-> EmptyMap, uncommitted |-> NoOps]

NoStmt ==
  [kind |-> "none", name |-> EmptyStr, tc |-> nullptr, to_add |-> << >>,
   to_remove |-> << >>, to_rename |-> << >>, to_call |-> << >>,
   registration |-> 0, to_unregister |-> 0,
   idx |-> 0, applied |-> 0, txn |-> "none", verdict |-> "none",
   unloaded |-> FALSE, alter_info |-> << >>]

LifeInit ==
  /\ vic = [n \in {MapNames[i] : i \in 1..6} |-> NoMap]
  /\ m_lock = "none"
  /\ mdl = [s \in Sessions |-> {}]
  /\ pc = [s \in Sessions |-> "idle"]
  /\ stmt = [s \in Sessions |-> NoStmt]
  /\ arena = [s \in Sessions |-> << >>]
  /\ share_arena = << >>
  /\ udfs = {}
  /\ so_loaded = {}
  /\ next_obj = 0
  /\ started = 0
  /\ host = [lower_case_table_names |-> 0, table_exists |-> FALSE,
             table_lock |-> "none"]


(***************************************************************************)
(* Locks                                                                   *)
(***************************************************************************)
\* VictionaryClient::m_lock is "none" or the session that holds the write
\* guard.  A guard that is taken and released inside one step of a statement
\* only needs the lock to be free at that step.
lock_is_free(lock) == lock = "none"

acquire_no_lock(lock, thd) == lock

acquire_write_lock(lock, thd) == thd

\* a release_lock that leaves the guard held
keep_write_lock(lock, thd) == lock

release_write_lock(lock, thd) == IF lock = thd THEN "none" ELSE lock

\* a request for the EXTENSION namespace lock of an extension name
MdlRequest(extension_name, type) ==
  [name |-> normalize_extension_name(extension_name), type |-> type]

\* the MDL subsystem grants X when nobody else holds the name, S when nobody
\* else holds X on it
mdl_can_grant(thd, request) ==
  \A t \in Sessions \ {thd} : \A l \in mdl[t] :
    l.name = request.name => (request.type = "S" /\ l.type = "S")

\* a lock_extension_exclusive that requests nothing
lock_extension_none(held, extension_name) == held

lock_extension_exclusive(held, extension_name) ==
  held \cup {MdlRequest(extension_name, "X")}

(***************************************************************************)
(* Heap objects and strong references                                      *)
(***************************************************************************)
SeqRange(seq) == {seq[i] : i \in DOMAIN seq}

MapRange(m) == {m[k] : k \in DOMAIN m}

\* the entries the pending operations of a map own
PendingEntries(map) ==
  UNION {{op.entry[1] : op \in {o \in SeqRange(map.uncommitted[t]) :
                                  o.entry # nullptr}} : t \in Sessions}

\* the TypeDescriptor objects that are alive: nothing but the map and its
\* pending operations owns one
LiveDescriptors ==
  MapRange(vic.type_descriptors.committed) \cup
  PendingEntries(vic.type_descriptors)

\* the shared_ptr copies registered on the arenas that point to object id
RefCount(id) ==
  Cardinality(UNION {{<<t, i>> : i \in {j \in DOMAIN arena[t] :
                                           arena[t][j] = id}} :
                     t \in Sessions}) +
  Cardinality({i \in DOMAIN share_arena : share_arena[i] = id})

get_use_count(committed, key_str) ==
  IF key_str \notin DOMAIN committed THEN 0
  ELSE 1 + RefCount(committed[key_str].id)

\* the map after acquire_or_create(key, arena, descriptor) and the entry it
\* returns; id is the address a newly created context gets
acquire_or_create(committed, key, descriptor, id) ==
  LET stored == IF key.str \in DOMAIN committed THEN committed
                ELSE MapPut(committed, key.str,
                            TypeContext(key, descriptor.id, id))
  IN [committed |-> stored, entry |-> stored[key.str]]

\* ResolveTypeToContext(extension_name, type_name, arena, result)
ResolveTypeToContext(extension_name, type_name, id) ==
  LET contexts == vic.type_contexts.committed
      results == get_prefix_committed(vic.type_descriptors.committed,
                   TypeDescriptorKeyPrefix(type_name, extension_name))
  IN IF Len(results) > 1
     THEN [error |-> TRUE, result |-> nullptr, committed |-> contexts]
     ELSE IF results = << >>
     THEN [error |-> FALSE, result |-> nullptr, committed |-> contexts]
     ELSE LET td == results[1]
              key == TypeDescriptorKey(td.key.type_name,
                                       td.key.extension_name,
                                       td.key.extension_version)
              r == acquire_or_create(contexts, TypeContextKey(key), td, id)
          IN [error |-> FALSE, result |-> <<r.entry>>,
              committed |-> r.committed]

\* what a read through TypeContext::descriptor_ yields: the key of the
\* descriptor while the object is alive; once it is destroyed the read is
\* undefined and yields any key the freed memory may hold
StaleKeys ==
  {TypeDescriptorKey(ManifestType, n, ManifestVersion) :
     n \in ExtNames \cup {<<Ch.u>>}}

DescriptorKeysOf(tc) ==
  LET alive == {td \in LiveDescriptors : td.id = tc.descriptor}
  IN IF alive # {} THEN {td.key : td \in alive} ELSE StaleKeys


\* what each TypeContext of the map shows through its descriptor pointer
DescriptorViews(contexts) ==
  {v \in [DOMAIN contexts ->
            UNION {DescriptorKeysOf(contexts[k]) : k \in DOMAIN contexts}] :
     \A k \in DOMAIN contexts : v[k] \in DescriptorKeysOf(contexts[k])}

(***************************************************************************)
(* Spec: statements.  Each session runs one statement at a time; pc is the *)
(* place the statement has reached and stmt holds its locals.              *)
(***************************************************************************)
StatementKinds == {"INSTALL", "UNINSTALL", "CREATE", "DROP", "OPEN"}

FirstPc(kind) ==
  CASE kind = "INSTALL" -> "install_lock"
    [] kind = "UNINSTALL" -> "uninstall_lock"
    [] kind = "CREATE" -> "create_parse"
    [] kind = "DROP" -> "drop_lock"
    [] kind = "OPEN" -> "open_table"
    [] kind = "CALL" -> "call_parse"
    [] kind = "ALTER" -> "alter_parse"

\* dispatch of a statement; name is the extension name as typed.  The
\* sessions drop, alter and open the user table only once it exists.
StartStatement(thd, kind, name) ==
  /\ pc[thd] = "idle"
  /\ started < MaxStmts
  /\ (kind \in {"INSTALL", "UNINSTALL", "CALL"}) = (name # EmptyStr)
  /\ (kind \in {"DROP", "OPEN", "ALTER"}) => host.table_exists
  /\ started' = started + 1
  /\ stmt' = [stmt EXCEPT ![thd] = [NoStmt EXCEPT !.kind = kind,
                                                  !.name = name,
                                                  !.txn = "active"]]
  /\ pc' = [pc EXCEPT ![thd] = FirstPc(kind)]
  /\ UNCHANGED <<vic, m_lock, mdl, arena, share_arena, udfs, so_loaded,
                 next_obj, host>>

\* end of the statement: the MDL_STATEMENT locks and the table lock are
\* released and thd->mem_root is cleared, which runs its cleanups
EndStatement(thd) ==
  /\ pc[thd] = "end"
  /\ pc' = [pc EXCEPT ![thd] = "idle"]
  /\ stmt' = [stmt EXCEPT ![thd] = NoStmt]
  /\ mdl' = [mdl EXCEPT ![thd] = {}]
  /\ arena' = [arena EXCEPT ![thd] = << >>]
  /\ host' = [host EXCEPT !.table_lock = IF @ = thd THEN "none" ELSE @]
  /\ UNCHANGED <<vic, m_lock, share_arena, udfs, so_loaded, next_obj, started>>

\* VictionaryClient::rollback_all_tables, reached through
\* end_transaction(thd, true) or a failed host commit
rollback_all_tables(thd) ==
  /\ pc[thd] = "rollback"
  /\ lock_is_free(m_lock)
  /\ vic' = [n \in DOMAIN vic |-> rollback(vic[n], thd)]
  /\ stmt' = [stmt EXCEPT ![thd].txn = "rolled_back"]
  /\ pc' = [pc EXCEPT ![thd] = "end"]
  /\ UNCHANGED <<m_lock, mdl, arena, share_arena, udfs, so_loaded, next_obj,
                 started, host>>

\* end_transaction(thd, false): the host commits its transaction and, when
\* that succeeds, enters VictionaryClient::commit_all_tables, which takes
\* the write guard
commit_all_tables_begin(thd, host_commit_ok) ==
  /\ pc[thd] = "commit"
  /\ IF host_commit_ok
     THEN /\ lock_is_free(m_lock)
          /\ m_lock' = acquire_write_lock(m_lock, thd)
          /\ stmt' = [stmt EXCEPT ![thd].idx = 1]
          /\ pc' = [pc EXCEPT ![thd] = "commit_maps"]
     ELSE /\ pc' = [pc EXCEPT ![thd] = "rollback"]
          /\ UNCHANGED <<m_lock, stmt>>
  /\ UNCHANGED <<vic, mdl, arena, share_arena, udfs, so_loaded, next_obj,
                 started, host>>

\* one m_<map>.commit(thd) of commit_all_tables; the guard is released after
\* the sixth.  The host then makes the DDL's table visible or gone; a dropped
\* table's TABLE_SHARE is destroyed, which clears its mem_root.
commit_all_tables_step(thd) ==
  /\ pc[thd] = "commit_maps"
  /\ LET n == MapNames[stmt[thd].idx]
         done == stmt[thd].idx = Len(MapNames)
     IN /\ vic' = [vic EXCEPT ![n] = commit(@, thd)]
        /\ stmt' = [stmt EXCEPT
             ![thd].idx = @ + 1,
             ![thd].applied = @ + Len(vic[n].uncommitted[thd]),
             ![thd].txn = IF done THEN "committed" ELSE @]
        /\ m_lock' = IF done THEN release_write_lock(m_lock, thd) ELSE m_lock
        /\ pc' = [pc EXCEPT ![thd] = IF done THEN "end" ELSE @]
        /\ host' = IF done /\ stmt[thd].kind = "CREATE"
                   THEN [host EXCEPT !.table_exists = TRUE]
                   ELSE IF done /\ stmt[thd].kind = "DROP"
                   THEN [host EXCEPT !.table_exists = FALSE]
                   ELSE host
        /\ share_arena' = IF done /\ stmt[thd].kind = "DROP"
                          THEN << >> ELSE share_arena
  /\ UNCHANGED <<mdl, arena, udfs, so_loaded, next_obj, started>>


\* VictionaryClient::write_all_uncommitted_entries under the read guard: the
\* rows of the pending operations go to the system tables, or the write fails
write_all_uncommitted_entries(thd, write_ok) ==
  /\ pc[thd] = "write"
  /\ lock_is_free(m_lock)
  /\ pc' = [pc EXCEPT ![thd] =
       IF ~write_ok THEN "rollback"
       ELSE IF stmt[thd].kind = "UNINSTALL" THEN "uninstall_unload"
       ELSE "commit"]
  /\ UNCHANGED <<vic, m_lock, mdl, stmt, arena, share_arena, udfs, so_loaded,
                 next_obj, started, host>>

(***************************************************************************)
(* INSTALL EXTENSION name  (Sql_cmd_install_extension::execute)            *)
(***************************************************************************)
\* the X lock on the normalized name, MDL_STATEMENT
install_lock(thd) ==
  /\ pc[thd] = "install_lock"
  /\ mdl_can_grant(thd, MdlRequest(stmt[thd].name, "X"))
  /\ mdl' = [mdl EXCEPT ![thd] = lock_extension_exclusive(@, stmt[thd].name)]
  /\ pc' = [pc EXCEPT ![thd] = "install_check"]
  /\ UNCHANGED <<vic, m_lock, stmt, arena, share_arena, udfs, so_loaded,
                 next_obj, started, host>>

\* the early check under the read guard
install_check(thd) ==
  /\ pc[thd] = "install_check"
  /\ lock_is_free(m_lock)
  /\ LET existing == get_committed(vic.extensions.committed,
                                   ExtensionKey(stmt[thd].name).str)
     IN pc' = [pc EXCEPT ![thd] = IF existing # nullptr THEN "rollback"
                                  ELSE "install_load"]
  /\ UNCHANGED <<vic, m_lock, mdl, stmt, arena, share_arena, udfs, so_loaded,
                 next_obj, started, host>>

\* expand the archive and load_vef_extension: the shared object is loaded
\* and the registration is its handle
install_load(thd, load_ok) ==
  /\ pc[thd] = "install_load"
  /\ IF load_ok
     THEN /\ next_obj' = next_obj + 1
          /\ so_loaded' = so_loaded \cup {next_obj + 1}
          /\ stmt' = [stmt EXCEPT ![thd].registration = next_obj + 1]
          /\ pc' = [pc EXCEPT ![thd] = "install_register"]
     ELSE /\ pc' = [pc EXCEPT ![thd] = "rollback"]
          /\ UNCHANGED <<next_obj, so_loaded, stmt>>
  /\ UNCHANGED <<vic, m_lock, mdl, arena, share_arena, udfs, started, host>>

\* register_types_from_extension: one TypeDescriptor per declared type is
\* marked for insertion
register_types_from_extension(types, thd, name, version, registration, id) ==
  MarkForInsertion(types, thd,
    TypeDescriptor(TypeDescriptorKey(ManifestType, name, version),
                   registration, id))

\* register_vdfs_from_extension: the functions of the registration are added
\* to the UDF subsystem under the qualified name extension.function
register_vdfs_from_extension(registered, extension_name, registration) ==
  registered \cup {[extension_name |-> extension_name,
                    registration |-> registration]}

\* the block under the write guard: types, VDFs, the ExtensionDescriptor.
\* A failure returns end_transaction(thd, true) from inside the block, with
\* the guard still held.
install_register(thd, failure) ==
  /\ pc[thd] = "install_register"
  /\ lock_is_free(m_lock)
  /\ LET name == stmt[thd].name
         registration == stmt[thd].registration
         types == register_types_from_extension(vic.type_descriptors, thd,
                    name, ManifestVersion, registration, next_obj + 1)
         descriptors == MarkForInsertion(vic.extension_descriptors, thd,
                          ExtensionDescriptor(
                            ExtensionDescriptorKey(name, ManifestVersion),
                            registration))
     IN CASE failure = "types" ->
               /\ m_lock' = acquire_write_lock(m_lock, thd)
               /\ pc' = [pc EXCEPT ![thd] = "rollback"]
               /\ UNCHANGED <<vic, udfs, next_obj>>
          [] failure = "vdfs" ->
               /\ m_lock' = acquire_write_lock(m_lock, thd)
               /\ vic' = [vic EXCEPT !.type_descriptors = types]
               /\ next_obj' = next_obj + 1
               /\ pc' = [pc EXCEPT ![thd] = "rollback"]
               /\ UNCHANGED udfs
          [] failure = "none" ->
               /\ vic' = [vic EXCEPT !.type_descriptors = types,
                                     !.extension_descriptors = descriptors]
               /\ next_obj' = next_obj + 1
               /\ udfs' = register_vdfs_from_extension(udfs, name, registration)
               /\ pc' = [pc EXCEPT ![thd] = "install_mark"]
               /\ UNCHANGED m_lock
  /\ UNCHANGED <<mdl, stmt, arena, share_arena, so_loaded, started, host>>

\* open villagesql.extensions, then the authoritative check and the
\* ExtensionEntry under the write guard
install_mark(thd, open_ok) ==
  /\ pc[thd] = "install_mark"
  /\ IF ~open_ok
     THEN /\ pc' = [pc EXCEPT ![thd] = "rollback"]
          /\ UNCHANGED vic
     ELSE /\ lock_is_free(m_lock)
          /\ LET key == ExtensionKey(stmt[thd].name)
                 existing == get_committed(vic.extensions.committed, key.str)
             IN IF existing # nullptr
                THEN /\ pc' = [pc EXCEPT ![thd] = "rollback"]
                     /\ UNCHANGED vic
                ELSE /\ vic' = [vic EXCEPT !.extensions =
                          MarkForInsertion(@, thd,
                            ExtensionEntry(key, ManifestVersion))]
                     /\ pc' = [pc EXCEPT ![thd] = "write"]
  /\ UNCHANGED <<m_lock, mdl, stmt, arena, share_arena, udfs, so_loaded,
                 next_obj, started, host>>


(***************************************************************************)
(* UNINSTALL EXTENSION name  (Sql_cmd_uninstall_extension::execute)        *)
(***************************************************************************)
uninstall_lock(thd) ==
  /\ pc[thd] = "uninstall_lock"
  /\ mdl_can_grant(thd, MdlRequest(stmt[thd].name, "X"))
  /\ mdl' = [mdl EXCEPT ![thd] = lock_extension_exclusive(@, stmt[thd].name)]
  /\ pc' = [pc EXCEPT ![thd] = "uninstall_remove"]
  /\ UNCHANGED <<vic, m_lock, stmt, arena, share_arena, udfs, so_loaded,
                 next_obj, started, host>>

check_for_columns_of_extension(ext_entry, all_columns) ==
  \E i \in DOMAIN all_columns :
    /\ all_columns[i].extension_name = ext_entry.key.extension_name
    /\ all_columns[i].extension_version = ext_entry.extension_version

\* the operations of a loop that marks every entry of entries for deletion
RECURSIVE MarkEachForDeletion(_, _, _)
MarkEachForDeletion(map, thd, entries) ==
  IF entries = << >> THEN map
  ELSE MarkEachForDeletion(MarkForDeletion(map, thd, Head(entries).key), thd,
                           Tail(entries))

\* a remove_extension_from_victionary that marks the Extension entry for
\* deletion before it makes its checks
remove_before_checks(thd, extension_name, view) ==
  LET ext_entry == get_committed(vic.extensions.committed,
                                 ExtensionKey(extension_name).str)
  IN IF ext_entry = nullptr
     THEN [verdict |-> "not_installed", vic |-> vic, to_unregister |-> 0]
     ELSE
     LET version == ext_entry[1].extension_version
         early  == [vic EXCEPT
                      !.extensions = MarkForDeletion(@, thd, ext_entry[1].key)]
         all_columns == get_all_committed(vic.columns.committed)
         all_type_contexts == get_all_committed(vic.type_contexts.committed)
         all_type_descs == get_all_committed(vic.type_descriptors.committed)
         of_extension(key) == /\ key.extension_name = extension_name
                              /\ key.extension_version = version
         type_contexts == SelectSeq(all_type_contexts,
                            LAMBDA tc : of_extension(view[tc.key.str]))
         type_descs == SelectSeq(all_type_descs,
                         LAMBDA td : of_extension(td.key))
         ext_desc == get_committed(vic.extension_descriptors.committed,
                       ExtensionDescriptorKey(extension_name, version).str)
     IN IF check_for_columns_of_extension(ext_entry[1], all_columns)
        THEN [verdict |-> "columns", vic |-> early, to_unregister |-> 0]
        ELSE IF \/ \E i \in DOMAIN type_contexts :
                     get_use_count(vic.type_contexts.committed,
                                   type_contexts[i].key.str) > 1
                \/ \E i \in DOMAIN type_descs :
                     get_use_count(vic.type_descriptors.committed,
                                   type_descs[i].key.str) > 1
        THEN [verdict |-> "in_use", vic |-> early, to_unregister |-> 0]
        ELSE
        [verdict |-> "proceed",
         vic |-> [early EXCEPT
           !.type_contexts = MarkEachForDeletion(@, thd, type_contexts),
           !.type_descriptors = MarkEachForDeletion(@, thd, type_descs),
           !.extension_descriptors =
              IF ext_desc # nullptr
              THEN MarkForDeletion(@, thd, ext_desc[1].key) ELSE @],
         to_unregister |-> IF ext_desc # nullptr
                           THEN ext_desc[1].registration ELSE 0]

\* remove_extension_from_victionary(thd, victionary, extension_name,
\* to_unregister), under the write guard.  view is what the extension_name()
\* and extension_version() of each TypeContext read through its descriptor.
\* The result is the verdict, the maps and to_unregister (0 when not set).
remove_extension_from_victionary(thd, extension_name, view) ==
  LET ext_entry == get_committed(vic.extensions.committed,
                                 ExtensionKey(extension_name).str)
      refused(why) == [verdict |-> why, vic |-> vic, to_unregister |-> 0]
  IN IF ext_entry = nullptr THEN refused("not_installed")
     ELSE
     LET version == ext_entry[1].extension_version
         all_columns == get_all_committed(vic.columns.committed)
         all_type_contexts == get_all_committed(vic.type_contexts.committed)
         all_type_descs == get_all_committed(vic.type_descriptors.committed)
         of_extension(key) == /\ key.extension_name = extension_name
                              /\ key.extension_version = version
         type_contexts == SelectSeq(all_type_contexts,
                            LAMBDA tc : of_extension(view[tc.key.str]))
         type_descs == SelectSeq(all_type_descs,
                         LAMBDA td : of_extension(td.key))
         ext_desc == get_committed(vic.extension_descriptors.committed,
                       ExtensionDescriptorKey(extension_name, version).str)
     IN IF check_for_columns_of_extension(ext_entry[1], all_columns)
        THEN refused("columns")
        ELSE IF \E i \in DOMAIN type_contexts :
                  get_use_count(vic.type_contexts.committed,
                                type_contexts[i].key.str) > 1
        THEN refused("in_use")
        ELSE IF \E i \in DOMAIN type_descs :
                  get_use_count(vic.type_descriptors.committed,
                                type_descs[i].key.str) > 1
        THEN refused("in_use")
        ELSE
        [verdict |-> "proceed",
         vic |-> [vic EXCEPT
           !.type_contexts = MarkEachForDeletion(@, thd, type_contexts),
           !.type_descriptors = MarkEachForDeletion(@, thd, type_descs),
           !.extensions = MarkForDeletion(@, thd, ext_entry[1].key),
           !.extension_descriptors =
              IF ext_desc # nullptr
              THEN MarkForDeletion(@, thd, ext_desc[1].key) ELSE @],
         to_unregister |-> IF ext_desc # nullptr
                           THEN ext_desc[1].registration ELSE 0]

\* open villagesql.extensions, then phase 1
uninstall_remove(thd, open_ok, view) ==
  /\ pc[thd] = "uninstall_remove"
  /\ IF ~open_ok
     THEN /\ pc' = [pc EXCEPT ![thd] = "rollback"]
          /\ UNCHANGED <<vic, stmt>>
     ELSE /\ lock_is_free(m_lock)
          /\ LET r == remove_extension_from_victionary(thd, stmt[thd].name,
                                                       view)
             IN /\ vic' = r.vic
                /\ stmt' = [stmt EXCEPT ![thd].verdict = r.verdict,
                                        ![thd].to_unregister = r.to_unregister]
                /\ pc' = [pc EXCEPT ![thd] = IF r.verdict = "proceed"
                                             THEN "write" ELSE "rollback"]
  /\ UNCHANGED <<m_lock, mdl, arena, share_arena, udfs, so_loaded, next_obj,
                 started, host>>

unregister_vdfs_from_extension(registered, extension_name, registration) ==
  {udf \in registered : udf.registration # registration}

unload_vef_extension(loaded, registration) == loaded \ {registration}

\* after the rows are written and before end_transaction(thd, false): the
\* VDFs are unregistered and the shared object is unloaded
uninstall_unload(thd) ==
  /\ pc[thd] = "uninstall_unload"
  /\ LET registration == stmt[thd].to_unregister
     IN IF registration # 0
        THEN /\ udfs' = unregister_vdfs_from_extension(udfs, stmt[thd].name,
                                                       registration)
             /\ so_loaded' = unload_vef_extension(so_loaded, registration)
             /\ stmt' = [stmt EXCEPT ![thd].unloaded = TRUE]
        ELSE UNCHANGED <<udfs, so_loaded, stmt>>
  /\ pc' = [pc EXCEPT ![thd] = "commit"]
  /\ UNCHANGED <<vic, m_lock, mdl, arena, share_arena, next_obj, started, host>>


(***************************************************************************)
(* DDL on the user table (Metadata_modifier) and custom type resolution    *)
(***************************************************************************)
\* parse of CREATE TABLE d.a (c t): PT_custom_type resolves the type name
\* on thd->mem_root, under the write guard and before any metadata lock
create_parse(thd) ==
  /\ pc[thd] = "create_parse"
  /\ lock_is_free(m_lock)
  /\ LET r == ResolveTypeToContext(EmptyStr, ManifestType, next_obj + 1)
     IN IF r.result = nullptr
        THEN /\ pc' = [pc EXCEPT ![thd] = "end"]
             /\ UNCHANGED <<vic, arena, stmt, next_obj>>
        ELSE /\ vic' = [vic EXCEPT !.type_contexts.committed = r.committed]
             /\ next_obj' = IF r.result[1].id = next_obj + 1
                            THEN next_obj + 1 ELSE next_obj
             /\ arena' = [arena EXCEPT ![thd] = Append(@, r.result[1].id)]
             /\ stmt' = [stmt EXCEPT ![thd].tc = r.result]
             /\ pc' = [pc EXCEPT ![thd] = "create_table_lock"]
  /\ UNCHANGED <<m_lock, mdl, share_arena, udfs, so_loaded, started, host>>

\* add_columns: the ColumnEntry of the custom type column, read from the
\* TypeContext through its descriptor; key is what that read yields
add_columns(db, table, column, key) ==
  <<ColumnEntry(ColumnKey(db, table, column), key.extension_name,
                key.extension_version, key.type_name)>>

\* the host takes the table's metadata lock, refuses an existing table, and
\* process_create collects the column
create_table_lock(thd, key) ==
  /\ pc[thd] = "create_table_lock"
  /\ host.table_lock = "none"
  /\ key \in DescriptorKeysOf(stmt[thd].tc[1])
  /\ host' = [host EXCEPT !.table_lock = thd]
  /\ IF host.table_exists
     THEN /\ pc' = [pc EXCEPT ![thd] = "rollback"]
          /\ UNCHANGED stmt
     ELSE /\ stmt' = [stmt EXCEPT ![thd].to_add =
                        add_columns(UserDb, UserTable, UserColumn, key)]
          /\ pc' = [pc EXCEPT ![thd] = "ddl_lock"]
  /\ UNCHANGED <<vic, m_lock, mdl, arena, share_arena, udfs, so_loaded,
                 next_obj, started>>

\* DROP TABLE d.a: the host takes the table's metadata lock
drop_lock(thd) ==
  /\ pc[thd] = "drop_lock"
  /\ host.table_lock = "none"
  /\ host' = [host EXCEPT !.table_lock = thd]
  /\ pc' = [pc EXCEPT ![thd] = IF host.table_exists THEN "drop_collect"
                               ELSE "rollback"]
  /\ UNCHANGED <<vic, m_lock, mdl, stmt, arena, share_arena, udfs, so_loaded,
                 next_obj, started>>

GetCustomColumnsForTable(db_name, table_name) ==
  get_prefix_committed(vic.columns.committed,
                       ColumnKeyPrefix(db_name, table_name))

\* remove_columns: entries built from the key alone, with no extension
remove_columns(custom_columns) ==
  [i \in DOMAIN custom_columns |->
     ColumnEntry(ColumnKey(custom_columns[i].key.db,
                           custom_columns[i].key.table,
                           custom_columns[i].key.column),
                 EmptyStr, EmptyStr, EmptyStr)]

\* process_drop under the read guard; lock_and_apply returns at once when
\* nothing was collected
drop_collect(thd) ==
  /\ pc[thd] = "drop_collect"
  /\ lock_is_free(m_lock)
  /\ LET to_remove == remove_columns(GetCustomColumnsForTable(UserDb, UserTable))
     IN /\ stmt' = [stmt EXCEPT ![thd].to_remove = to_remove]
        /\ pc' = [pc EXCEPT ![thd] = IF to_remove = << >> THEN "commit"
                                     ELSE "ddl_lock"]
  /\ UNCHANGED <<vic, m_lock, mdl, arena, share_arena, udfs, so_loaded,
                 next_obj, started, host>>

\* a lock_extensions_shared that requests nothing
lock_no_extensions(held, entries) == held

\* lock_extensions_shared: S on every extension the entries name
lock_extensions_shared(held, entries) ==
  held \cup {MdlRequest(entries[i].extension_name, "S") :
               i \in {j \in DOMAIN entries :
                        entries[j].extension_name # EmptyStr}}

ddl_lock(thd) ==
  /\ pc[thd] = "ddl_lock"
  /\ LET locked == lock_extensions_shared(mdl[thd],
                     stmt[thd].to_add \o stmt[thd].to_remove \o
                     [i \in DOMAIN stmt[thd].to_rename |->
                        stmt[thd].to_rename[i].new_entry] \o
                     stmt[thd].to_call)
     IN /\ \A request \in locked \ mdl[thd] : mdl_can_grant(thd, request)
        /\ mdl' = [mdl EXCEPT ![thd] = locked]
  /\ pc' = [pc EXCEPT ![thd] = "ddl_validate"]
  /\ UNCHANGED <<vic, m_lock, stmt, arena, share_arena, udfs, so_loaded,
                 next_obj, started, host>>

\* validate_entry of validate_entries: TRUE is the error
validate_entry(entry) ==
  IF entry.extension_name = EmptyStr \/ entry.type_name = EmptyStr THEN FALSE
  ELSE LET type_descriptor ==
             get_committed(vic.type_descriptors.committed,
               TypeDescriptorKey(entry.type_name, entry.extension_name,
                                 entry.extension_version).str)
       IN \/ type_descriptor = nullptr
          \/ type_descriptor[1].key.extension_name # entry.extension_name
          \/ type_descriptor[1].key.extension_version # entry.extension_version

\* find_udf_qualified: the functions registered as extension.function
find_udf_qualified(registered, extension_name) ==
  {udf \in registered : udf.extension_name = extension_name}

\* the check of one routine of to_call_: TRUE is the error
validate_routine(routine) ==
  \/ get_committed(vic.extensions.committed,
                   ExtensionKey(routine.extension_name).str) = nullptr
  \/ find_udf_qualified(udfs, routine.extension_name) = {}

validate_entries(thd) ==
  /\ pc[thd] = "ddl_validate"
  /\ lock_is_free(m_lock)
  /\ LET entries == stmt[thd].to_add \o stmt[thd].to_remove \o
                    [i \in DOMAIN stmt[thd].to_rename |->
                       stmt[thd].to_rename[i].new_entry]
     IN pc' = [pc EXCEPT ![thd] =
          IF \/ \E i \in DOMAIN entries : validate_entry(entries[i])
             \/ \E i \in DOMAIN stmt[thd].to_call :
                  validate_routine(stmt[thd].to_call[i])
          THEN "rollback" ELSE "ddl_mark"]
  /\ UNCHANGED <<vic, m_lock, mdl, stmt, arena, share_arena, udfs, so_loaded,
                 next_obj, started, host>>

RECURSIVE MarkEachForInsertion(_, _, _)
MarkEachForInsertion(map, thd, entries) ==
  IF entries = << >> THEN map
  ELSE MarkEachForInsertion(MarkForInsertion(map, thd, Head(entries)), thd,
                            Tail(entries))

RECURSIVE MarkEachForUpdate(_, _, _)
MarkEachForUpdate(map, thd, renames) ==
  IF renames = << >> THEN map
  ELSE MarkEachForUpdate(MarkForUpdate(map, thd, Head(renames).new_entry,
                                       Head(renames).old_key),
                         thd, Tail(renames))

\* a staging that processes the additions before the removals
mark_additions_first(columns, thd, to_remove, to_rename, to_add) ==
  MarkEachForDeletion(
    MarkEachForUpdate(MarkEachForInsertion(columns, thd, to_add),
                      thd, to_rename),
    thd, to_remove)

\* the three loops of mark_victionary_modifications: removals, renames,
\* additions
mark_modifications(columns, thd, to_remove, to_rename, to_add) ==
  MarkEachForInsertion(
    MarkEachForUpdate(MarkEachForDeletion(columns, thd, to_remove),
                      thd, to_rename),
    thd, to_add)

\* mark_victionary_modifications under the write guard; when something was
\* marked add_system_table opens villagesql.custom_columns.  A statement
\* that only calls functions marks nothing and goes on to its rows.
mark_victionary_modifications(thd, open_ok) ==
  /\ pc[thd] = "ddl_mark"
  /\ lock_is_free(m_lock)
  /\ vic' = [vic EXCEPT !.columns =
       mark_modifications(@, thd, stmt[thd].to_remove, stmt[thd].to_rename,
                          stmt[thd].to_add)]
  /\ stmt' = [stmt EXCEPT ![thd].to_add = << >>, ![thd].to_remove = << >>,
                          ![thd].to_rename = << >>]
  /\ LET marked == \/ stmt[thd].to_remove # << >>
                   \/ stmt[thd].to_rename # << >>
                   \/ stmt[thd].to_add # << >>
     IN pc' = [pc EXCEPT ![thd] = IF ~marked THEN "call_rows"
                                  ELSE IF open_ok THEN "write"
                                  ELSE "rollback"]
  /\ UNCHANGED <<m_lock, mdl, arena, share_arena, udfs, so_loaded, next_obj,
                 started, host>>

\* a statement opens the user table, if there is one: MaybeInjectCustomType
\* attaches the TypeContext of its column, acquired on the mem_root of the
\* TABLE_SHARE
MaybeInjectCustomType(thd) ==
  /\ pc[thd] = "open_table"
  /\ host.table_lock = "none"
  /\ lock_is_free(m_lock)
  /\ LET key == ColumnKey(UserDb, UserTable, UserColumn)
         column_entry == get(vic.columns.committed,
                             vic.columns.uncommitted[thd], key.str)
     IN IF ~host.table_exists \/ column_entry = nullptr
        THEN UNCHANGED <<vic, share_arena, next_obj>>
        ELSE
        LET type_descriptor_key ==
              TypeDescriptorKey(column_entry[1].type_name,
                                column_entry[1].extension_name,
                                column_entry[1].extension_version)
            type_descriptor == get_committed(vic.type_descriptors.committed,
                                             type_descriptor_key.str)
        IN IF type_descriptor = nullptr
           THEN UNCHANGED <<vic, share_arena, next_obj>>
           ELSE
           LET r == acquire_or_create(vic.type_contexts.committed,
                      TypeContextKey(type_descriptor_key),
                      type_descriptor[1], next_obj + 1)
           IN /\ vic' = [vic EXCEPT !.type_contexts.committed = r.committed]
              /\ next_obj' = IF r.entry.id = next_obj + 1
                             THEN next_obj + 1 ELSE next_obj
              /\ share_arena' = Append(share_arena, r.entry.id)
  /\ pc' = [pc EXCEPT ![thd] = "end"]
  /\ UNCHANGED <<m_lock, mdl, stmt, arena, udfs, so_loaded, started, host>>

\* the table cache evicts the unused TABLE_SHARE: its mem_root is cleared
evict_table_share ==
  /\ share_arena # << >>
  /\ share_arena' = << >>
  /\ UNCHANGED <<vic, m_lock, mdl, pc, stmt, arena, udfs, so_loaded, next_obj,
                 started, host>>


(***************************************************************************)
(* Spec: next-state relation                                               *)
(***************************************************************************)
Next ==
  \/ \E thd \in Sessions, kind \in StatementKinds,
        name \in ExtNames \cup {EmptyStr} :
       /\ StartStatement(thd, kind, name)
       /\ UNCHANGED <<mapvars, unitvars>>
  \/ \E thd \in Sessions :
       /\ EndStatement(thd)
       /\ UNCHANGED <<mapvars, unitvars>>
  \/ \E thd \in Sessions :
       /\ rollback_all_tables(thd)
       /\ UNCHANGED <<mapvars, unitvars>>
  \/ \E thd \in Sessions, host_commit_ok \in BOOLEAN :
       /\ commit_all_tables_begin(thd, host_commit_ok)
       /\ UNCHANGED <<mapvars, unitvars>>
  \/ \E thd \in Sessions :
       /\ commit_all_tables_step(thd)
       /\ UNCHANGED <<mapvars, unitvars>>
  \/ \E thd \in Sessions, write_ok \in BOOLEAN :
       /\ write_all_uncommitted_entries(thd, write_ok)
       /\ UNCHANGED <<mapvars, unitvars>>
  \/ \E thd \in Sessions :
       /\ install_lock(thd)
       /\ UNCHANGED <<mapvars, unitvars>>
  \/ \E thd \in Sessions :
       /\ install_check(thd)
       /\ UNCHANGED <<mapvars, unitvars>>
  \/ \E thd \in Sessions, load_ok \in BOOLEAN :
       /\ install_load(thd, load_ok)
       /\ UNCHANGED <<mapvars, unitvars>>
  \/ \E thd \in Sessions, failure \in {"none", "types", "vdfs"} :
       /\ install_register(thd, failure)
       /\ UNCHANGED <<mapvars, unitvars>>
  \/ \E thd \in Sessions, open_ok \in BOOLEAN :
       /\ install_mark(thd, open_ok)
       /\ UNCHANGED <<mapvars, unitvars>>
  \/ \E thd \in Sessions :
       /\ uninstall_lock(thd)
       /\ UNCHANGED <<mapvars, unitvars>>
  \/ \E thd \in Sessions, open_ok \in BOOLEAN,
        view \in DescriptorViews(vic.type_contexts.committed) :
       /\ uninstall_remove(thd, open_ok, view)
       /\ UNCHANGED <<mapvars, unitvars>>
  \/ \E thd \in Sessions :
       /\ uninstall_unload(thd)
       /\ UNCHANGED <<mapvars, unitvars>>
  \/ \E thd \in Sessions :
       /\ create_parse(thd)
       /\ UNCHANGED <<mapvars, unitvars>>
  \/ \E thd \in Sessions, key \in StaleKeys \cup {td.key : td \in LiveDescriptors} :
       /\ create_table_lock(thd, key)
       /\ UNCHANGED <<mapvars, unitvars>>
  \/ \E thd \in Sessions :
       /\ drop_lock(thd)
       /\ UNCHANGED <<mapvars, unitvars>>
  \/ \E thd \in Sessions :
       /\ drop_collect(thd)
       /\ UNCHANGED <<mapvars, unitvars>>
  \/ \E thd \in Sessions :
       /\ ddl_lock(thd)
       /\ UNCHANGED <<mapvars, unitvars>>
  \/ \E thd \in Sessions :
       /\ validate_entries(thd)
       /\ UNCHANGED <<mapvars, unitvars>>
  \/ \E thd \in Sessions, open_ok \in BOOLEAN :
       /\ mark_victionary_modifications(thd, open_ok)
       /\ UNCHANGED <<mapvars, unitvars>>
  \/ \E thd \in Sessions :
       /\ MaybeInjectCustomType(thd)
       /\ UNCHANGED <<mapvars, unitvars>>
  \/ /\ evict_table_share
     /\ UNCHANGED <<mapvars, unitvars>>


(***************************************************************************)
(* A statement that calls the function of an extension: SELECT name.f(...) *)
(***************************************************************************)
\* the function the extension file registers
ManifestFunction == <<Ch.f>>

\* add_functions: one Croutine_entry per routine of the statement
add_functions(extension_name, function_name) ==
  <<[extension_name |-> extension_name, function_name |-> function_name]>>

\* parse: try_itemize_custom_vdf looks the qualified name up and, when it is
\* found, custom_add_used_routine records the routine and the item keeps the
\* function; process_calls then collects the routines
call_parse(thd) ==
  /\ pc[thd] = "call_parse"
  /\ LET found == find_udf_qualified(udfs, stmt[thd].name)
     IN IF found = {}
        THEN /\ pc' = [pc EXCEPT ![thd] = "end"]
             /\ UNCHANGED stmt
        ELSE /\ \E udf \in found :
                  stmt' = [stmt EXCEPT
                    ![thd].registration = udf.registration,
                    ![thd].to_call = add_functions(stmt[thd].name,
                                                   ManifestFunction)]
             /\ pc' = [pc EXCEPT ![thd] = "ddl_lock"]
  /\ UNCHANGED <<vic, m_lock, mdl, arena, share_arena, udfs, so_loaded,
                 next_obj, started, host>>

\* the rows of the statement: each row calls the function
call_rows(thd) ==
  /\ pc[thd] = "call_rows"
  /\ pc' = [pc EXCEPT ![thd] = "end"]
  /\ UNCHANGED <<vic, m_lock, mdl, stmt, arena, share_arena, udfs, so_loaded,
                 next_obj, started, host>>

CallStatementKinds == {"INSTALL", "UNINSTALL", "CALL"}

CallNext ==
  \/ \E thd \in Sessions, kind \in CallStatementKinds, name \in ExtNames :
       /\ StartStatement(thd, kind, name)
       /\ UNCHANGED <<mapvars, unitvars>>
  \/ \E thd \in Sessions :
       /\ EndStatement(thd)
       /\ UNCHANGED <<mapvars, unitvars>>
  \/ \E thd \in Sessions :
       /\ rollback_all_tables(thd)
       /\ UNCHANGED <<mapvars, unitvars>>
  \/ \E thd \in Sessions, host_commit_ok \in BOOLEAN :
       /\ commit_all_tables_begin(thd, host_commit_ok)
       /\ UNCHANGED <<mapvars, unitvars>>
  \/ \E thd \in Sessions :
       /\ commit_all_tables_step(thd)
       /\ UNCHANGED <<mapvars, unitvars>>
  \/ \E thd \in Sessions, write_ok \in BOOLEAN :
       /\ write_all_uncommitted_entries(thd, write_ok)
       /\ UNCHANGED <<mapvars, unitvars>>
  \/ \E thd \in Sessions :
       /\ install_lock(thd)
       /\ UNCHANGED <<mapvars, unitvars>>
  \/ \E thd \in Sessions :
       /\ install_check(thd)
       /\ UNCHANGED <<mapvars, unitvars>>
  \/ \E thd \in Sessions, load_ok \in BOOLEAN :
       /\ install_load(thd, load_ok)
       /\ UNCHANGED <<mapvars, unitvars>>
  \/ \E thd \in Sessions, failure \in {"none", "types", "vdfs"} :
       /\ install_register(thd, failure)
       /\ UNCHANGED <<mapvars, unitvars>>
  \/ \E thd \in Sessions, open_ok \in BOOLEAN :
       /\ install_mark(thd, open_ok)
       /\ UNCHANGED <<mapvars, unitvars>>
  \/ \E thd \in Sessions :
       /\ uninstall_lock(thd)
       /\ UNCHANGED <<mapvars, unitvars>>
  \/ \E thd \in Sessions, open_ok \in BOOLEAN,
        view \in DescriptorViews(vic.type_contexts.committed) :
       /\ uninstall_remove(thd, open_ok, view)
       /\ UNCHANGED <<mapvars, unitvars>>
  \/ \E thd \in Sessions :
       /\ uninstall_unload(thd)
       /\ UNCHANGED <<mapvars, unitvars>>
  \/ \E thd \in Sessions :
       /\ call_parse(thd)
       /\ UNCHANGED <<mapvars, unitvars>>
  \/ \E thd \in Sessions :
       /\ ddl_lock(thd)
       /\ UNCHANGED <<mapvars, unitvars>>
  \/ \E thd \in Sessions :
       /\ validate_entries(thd)
       /\ UNCHANGED <<mapvars, unitvars>>
  \/ \E thd \in Sessions, open_ok \in BOOLEAN :
       /\ mark_victionary_modifications(thd, open_ok)
       /\ UNCHANGED <<mapvars, unitvars>>
  \/ \E thd \in Sessions :
       /\ call_rows(thd)
       /\ UNCHANGED <<mapvars, unitvars>>


(***************************************************************************)
(* ALTER TABLE d.a CHANGE COLUMN change field_name t                       *)
(* (Metadata_modifier::process_alter)                                      *)
(***************************************************************************)
\* the column names the statement types for the one column of the table
ColumnNames == {<<Ch.c>>, <<Ch.C>>}

\* parse: PT_custom_type resolves the type name as for CREATE TABLE; the
\* Create_field of alter_info->create_list keeps the two column names
alter_parse(thd, change, field_name) ==
  /\ pc[thd] = "alter_parse"
  /\ lock_is_free(m_lock)
  /\ LET r == ResolveTypeToContext(EmptyStr, ManifestType, next_obj + 1)
     IN IF r.result = nullptr
        THEN /\ pc' = [pc EXCEPT ![thd] = "end"]
             /\ UNCHANGED <<vic, arena, stmt, next_obj>>
        ELSE /\ vic' = [vic EXCEPT !.type_contexts.committed = r.committed]
             /\ next_obj' = IF r.result[1].id = next_obj + 1
                            THEN next_obj + 1 ELSE next_obj
             /\ arena' = [arena EXCEPT ![thd] = Append(@, r.result[1].id)]
             /\ stmt' = [stmt EXCEPT
                  ![thd].tc = r.result,
                  ![thd].alter_info = <<[change |-> change,
                                         field_name |-> field_name]>>]
             /\ pc' = [pc EXCEPT ![thd] = "alter_lock"]
  /\ UNCHANGED <<m_lock, mdl, share_arena, udfs, so_loaded, started, host>>

\* alter_columns for one Create_field that has field.change and a custom
\* type: custom to custom is a removal and an addition, non-custom to custom
\* an addition.  key is what the TypeContext reads through its descriptor.
alter_columns(custom_columns, db, table, field, key) ==
  LET was_custom_type == \E i \in DOMAIN custom_columns :
                           custom_columns[i].key.column = field.change
  IN [to_remove |->
        IF was_custom_type
        THEN <<ColumnEntry(ColumnKey(db, table, field.change),
                           EmptyStr, EmptyStr, EmptyStr)>>
        ELSE << >>,
      to_add |->
        <<ColumnEntry(ColumnKey(db, table, field.field_name),
                      key.extension_name, key.extension_version,
                      key.type_name)>>]

\* the host takes the table's metadata lock and process_alter collects the
\* changes under the read guard
alter_lock(thd, key) ==
  /\ pc[thd] = "alter_lock"
  /\ host.table_lock = "none"
  /\ lock_is_free(m_lock)
  /\ key \in DescriptorKeysOf(stmt[thd].tc[1])
  /\ host' = [host EXCEPT !.table_lock = thd]
  /\ IF ~host.table_exists
     THEN /\ pc' = [pc EXCEPT ![thd] = "rollback"]
          /\ UNCHANGED stmt
     ELSE /\ LET r == alter_columns(GetCustomColumnsForTable(UserDb, UserTable),
                                    UserDb, UserTable, stmt[thd].alter_info[1],
                                    key)
             IN stmt' = [stmt EXCEPT ![thd].to_remove = r.to_remove,
                                     ![thd].to_add = r.to_add]
          /\ pc' = [pc EXCEPT ![thd] = "ddl_lock"]
  /\ UNCHANGED <<vic, m_lock, mdl, arena, share_arena, udfs, so_loaded,
                 next_obj, started>>

AlterStatementKinds == {"INSTALL", "CREATE", "ALTER"}

AlterNext ==
  \/ \E thd \in Sessions, kind \in AlterStatementKinds,
        name \in ExtNames \cup {EmptyStr} :
       /\ StartStatement(thd, kind, name)
       /\ UNCHANGED <<mapvars, unitvars>>
  \/ \E thd \in Sessions :
       /\ EndStatement(thd)
       /\ UNCHANGED <<mapvars, unitvars>>
  \/ \E thd \in Sessions :
       /\ rollback_all_tables(thd)
       /\ UNCHANGED <<mapvars, unitvars>>
  \/ \E thd \in Sessions, host_commit_ok \in BOOLEAN :
       /\ commit_all_tables_begin(thd, host_commit_ok)
       /\ UNCHANGED <<mapvars, unitvars>>
  \/ \E thd \in Sessions :
       /\ commit_all_tables_step(thd)
       /\ UNCHANGED <<mapvars, unitvars>>
  \/ \E thd \in Sessions, write_ok \in BOOLEAN :
       /\ write_all_uncommitted_entries(thd, write_ok)
       /\ UNCHANGED <<mapvars, unitvars>>
  \/ \E thd \in Sessions :
       /\ install_lock(thd)
       /\ UNCHANGED <<mapvars, unitvars>>
  \/ \E thd \in Sessions :
       /\ install_check(thd)
       /\ UNCHANGED <<mapvars, unitvars>>
  \/ \E thd \in Sessions, load_ok \in BOOLEAN :
       /\ install_load(thd, load_ok)
       /\ UNCHANGED <<mapvars, unitvars>>
  \/ \E thd \in Sessions, failure \in {"none", "types", "vdfs"} :
       /\ install_register(thd, failure)
       /\ UNCHANGED <<mapvars, unitvars>>
  \/ \E thd \in Sessions, open_ok \in BOOLEAN :
       /\ install_mark(thd, open_ok)
       /\ UNCHANGED <<mapvars, unitvars>>
  \/ \E thd \in Sessions :
       /\ create_parse(thd)
       /\ UNCHANGED <<mapvars, unitvars>>
  \/ \E thd \in Sessions, key \in StaleKeys \cup {td.key : td \in LiveDescriptors} :
       /\ create_table_lock(thd, key)
       /\ UNCHANGED <<mapvars, unitvars>>
  \/ \E thd \in Sessions, change \in ColumnNames, field_name \in ColumnNames :
       /\ alter_parse(thd, change, field_name)
       /\ UNCHANGED <<mapvars, unitvars>>
  \/ \E thd \in Sessions, key \in StaleKeys \cup {td.key : td \in LiveDescriptors} :
       /\ alter_lock(thd, key)
       /\ UNCHANGED <<mapvars, unitvars>>
  \/ \E thd \in Sessions :
       /\ ddl_lock(thd)
       /\ UNCHANGED <<mapvars, unitvars>>
  \/ \E thd \in Sessions :
       /\ validate_entries(thd)
       /\ UNCHANGED <<mapvars, unitvars>>
  \/ \E thd \in Sessions, open_ok \in BOOLEAN :
       /\ mark_victionary_modifications(thd, open_ok)
       /\ UNCHANGED <<mapvars, unitvars>>


(***************************************************************************)
(* RefSpec: the reference counts of the entries of one SystemTableMap      *)
(* (the TypeContext map).  An object is a number; use_count is the strong  *)
(* count of its control block and the object is destroyed when it is 0.    *)
(* Every method runs under the VictionaryClient lock, so each is one step. *)
(***************************************************************************)
\* RefSpec: number of objects created over a whole run
MaxObjs == 3
\* RefSpec: number of shared_ptr copies outstanding at a time
MaxHolders == 3

MemRoots == {"mem_root1", "mem_root2"}

RefKeys == {<<Ch.a>>, <<Ch.b>>}

Objects == 1..MaxObjs

NoCall == [call |-> "none", key |-> EmptyStr, descriptor |-> nullptr,
           register_ok |-> TRUE, result |-> nullptr, before |-> EmptyMap,
           created |-> 0]

RefInit ==
  /\ rmap = EmptyMap
  /\ use_count = [o \in Objects |-> 0]
  /\ roots = [r \in MemRoots |-> << >>]
  /\ owned = << >>
  /\ ret = NoCall

\* std::shared_ptr: a copy raises the strong count, its destruction lowers it
shared_ptr_copy(counts, o) == [counts EXCEPT ![o] = @ + 1]

shared_ptr_destroy(counts, o) == [counts EXCEPT ![o] = @ - 1]

\* std::make_shared: the first object not yet created, with one owner
make_shared(counts, created) == [counts EXCEPT ![created + 1] = 1]

Outstanding == Len(owned) + Len(roots["mem_root1"]) + Len(roots["mem_root2"])

\* an acquire that keeps the ref_holder when register_cleanup fails
acquire_leaking_holder(committed, counts, scopes, key_str, cleanup_scope, register_ok) ==
  IF key_str \notin DOMAIN committed
  THEN [result |-> nullptr, use_count |-> counts, roots |-> scopes]
  ELSE LET o == committed[key_str]
           ref_holder == shared_ptr_copy(counts, o)
       IN IF ~register_ok
          THEN [result |-> nullptr, use_count |-> ref_holder, roots |-> scopes]
          ELSE [result |-> <<o>>, use_count |-> ref_holder,
                roots |-> [scopes EXCEPT ![cleanup_scope] = Append(@, o)]]

\* acquire(key_str, cleanup_scope): the copy of the shared_ptr and its
\* cleanup; register_ok is whether register_cleanup succeeds
acquire(committed, counts, scopes, key_str, cleanup_scope, register_ok) ==
  IF key_str \notin DOMAIN committed
  THEN [result |-> nullptr, use_count |-> counts, roots |-> scopes]
  ELSE LET o == committed[key_str]
           ref_holder == shared_ptr_copy(counts, o)
       IN IF ~register_ok
          THEN [result |-> nullptr,
                use_count |-> shared_ptr_destroy(ref_holder, o),
                roots |-> scopes]
          ELSE [result |-> <<o>>, use_count |-> ref_holder,
                roots |-> [scopes EXCEPT ![cleanup_scope] = Append(@, o)]]

\* a factory that constructs an entry even without a descriptor
create_without_descriptor(counts, created, descriptor) ==
  [new_entry |-> <<created + 1>>, use_count |-> make_shared(counts, created)]

\* TableTraits<TypeContext>::create: no entry without a descriptor
create(counts, created, descriptor) ==
  IF descriptor = nullptr THEN [new_entry |-> nullptr, use_count |-> counts]
  ELSE [new_entry |-> <<created + 1>>,
        use_count |-> make_shared(counts, created)]

\* an acquire_or_create that always constructs and stores an entry
always_create(committed, counts, scopes, created, key_str, cleanup_scope, descriptor, register_ok) ==
  LET made == create(counts, created, descriptor)
  IN IF made.new_entry = nullptr
     THEN [result |-> nullptr, committed |-> committed,
           use_count |-> counts, roots |-> scopes]
     ELSE LET stored == MapPut(committed, key_str, made.new_entry[1])
              dropped == IF key_str \in DOMAIN committed
                         THEN shared_ptr_destroy(made.use_count,
                                                 committed[key_str])
                         ELSE made.use_count
              got == acquire(stored, dropped, scopes, key_str, cleanup_scope,
                             register_ok)
          IN [result |-> got.result, committed |-> stored,
              use_count |-> got.use_count, roots |-> got.roots]

\* acquire_or_create(key, cleanup_scope, descriptor) of the map, with the
\* counts: find, else create and emplace, then the copy and its cleanup
acquire_or_create_counted(committed, counts, scopes, created, key_str, cleanup_scope, descriptor, register_ok) ==
  IF key_str \notin DOMAIN committed
  THEN LET made == create(counts, created, descriptor)
       IN IF made.new_entry = nullptr
          THEN [result |-> nullptr, committed |-> committed,
                use_count |-> counts, roots |-> scopes]
          ELSE LET stored == MapPut(committed, key_str, made.new_entry[1])
                   got == acquire(stored, made.use_count, scopes, key_str,
                                  cleanup_scope, register_ok)
               IN [result |-> got.result, committed |-> stored,
                   use_count |-> got.use_count, roots |-> got.roots]
  ELSE LET got == acquire(committed, counts, scopes, key_str, cleanup_scope,
                          register_ok)
       IN [result |-> got.result, committed |-> committed,
           use_count |-> got.use_count, roots |-> got.roots]

\* MEM_ROOT::Clear runs release_shared_ptr_ref on every ref_holder
RECURSIVE release_shared_ptr_ref(_, _)
release_shared_ptr_ref(counts, holders) ==
  IF holders = << >> THEN counts
  ELSE release_shared_ptr_ref(shared_ptr_destroy(counts, Head(holders)),
                              Tail(holders))

\* get_use_count(key_str): the strong count of the entry of the key, 0 when
\* there is none
use_count_of_key(committed, counts, key_str) ==
  IF key_str \notin DOMAIN committed THEN 0 ELSE counts[committed[key_str]]

RefAcquire(key_str, cleanup_scope, register_ok) ==
  /\ Outstanding < MaxHolders
  /\ LET got == acquire(rmap, use_count, roots, key_str, cleanup_scope,
                        register_ok)
     IN /\ use_count' = got.use_count
        /\ roots' = got.roots
        /\ ret' = [NoCall EXCEPT !.call = "acquire", !.key = key_str,
                                 !.register_ok = register_ok,
                                 !.result = got.result, !.before = rmap,
                                 !.created = ret.created]
  /\ UNCHANGED <<rmap, owned>>

RefAcquireOrCreate(key_str, cleanup_scope, descriptor, register_ok) ==
  /\ Outstanding < MaxHolders
  /\ ret.created < MaxObjs
  /\ LET got == acquire_or_create_counted(rmap, use_count, roots, ret.created,
                  key_str, cleanup_scope, descriptor, register_ok)
     IN /\ rmap' = got.committed
        /\ use_count' = got.use_count
        /\ roots' = got.roots
        /\ ret' = [NoCall EXCEPT
                     !.call = "acquire_or_create", !.key = key_str,
                     !.descriptor = descriptor, !.register_ok = register_ok,
                     !.result = got.result, !.before = rmap,
                     !.created = IF got.committed = rmap THEN ret.created
                                 ELSE ret.created + 1]
  /\ UNCHANGED owned

\* acquire_client_managed: the caller keeps a copy of the shared_ptr
RefAcquireClientManaged(key_str) ==
  /\ Outstanding < MaxHolders
  /\ key_str \in DOMAIN rmap
  /\ use_count' = shared_ptr_copy(use_count, rmap[key_str])
  /\ owned' = Append(owned, rmap[key_str])
  /\ ret' = [NoCall EXCEPT !.call = "acquire_client_managed",
                           !.key = key_str, !.result = <<rmap[key_str]>>,
                           !.before = rmap, !.created = ret.created]
  /\ UNCHANGED <<rmap, roots>>

\* the caller lets go of the copy it was handed first
RefReleaseClientManaged ==
  /\ owned # << >>
  /\ use_count' = shared_ptr_destroy(use_count, Head(owned))
  /\ owned' = Tail(owned)
  /\ ret' = [NoCall EXCEPT !.call = "release", !.before = rmap,
                           !.created = ret.created]
  /\ UNCHANGED <<rmap, roots>>

RefClear(cleanup_scope) ==
  /\ roots[cleanup_scope] # << >>
  /\ use_count' = release_shared_ptr_ref(use_count, roots[cleanup_scope])
  /\ roots' = [roots EXCEPT ![cleanup_scope] = << >>]
  /\ ret' = [NoCall EXCEPT !.call = "Clear", !.before = rmap,
                           !.created = ret.created]
  /\ UNCHANGED <<rmap, owned>>

\* commit() of a staged INSERT or UPDATE of an entry under key_str:
\* m_committed[key] = std::move(op->entry) lets go of the entry it replaces
RefCommitInsert(key_str) ==
  /\ ret.created < MaxObjs
  /\ LET made == make_shared(use_count, ret.created)
     IN use_count' = IF key_str \in DOMAIN rmap
                     THEN shared_ptr_destroy(made, rmap[key_str]) ELSE made
  /\ rmap' = MapPut(rmap, key_str, ret.created + 1)
  /\ ret' = [NoCall EXCEPT !.call = "commit", !.before = rmap,
                           !.created = ret.created + 1]
  /\ UNCHANGED <<roots, owned>>

\* commit() of a staged DELETE of key_str: m_committed.erase
RefCommitDelete(key_str) ==
  /\ key_str \in DOMAIN rmap
  /\ use_count' = shared_ptr_destroy(use_count, rmap[key_str])
  /\ rmap' = MapErase(rmap, key_str)
  /\ ret' = [NoCall EXCEPT !.call = "commit", !.before = rmap,
                           !.created = ret.created]
  /\ UNCHANGED <<roots, owned>>

\* the variables outside RefSpec
outside_ref == <<mapvars, lifevars, scanvars, vdfvars, bindvars, writevars,
                 initvars,
                 normvars,
                 semvars,
                 renvars,
                 rowvars>>

RefNext ==
  \/ \E key_str \in RefKeys, cleanup_scope \in MemRoots, register_ok \in BOOLEAN :
       /\ RefAcquire(key_str, cleanup_scope, register_ok)
       /\ UNCHANGED outside_ref
  \/ \E key_str \in RefKeys, cleanup_scope \in MemRoots, descriptor \in {nullptr, <<"descriptor">>}, register_ok \in BOOLEAN :
       /\ RefAcquireOrCreate(key_str, cleanup_scope, descriptor, register_ok)
       /\ UNCHANGED outside_ref
  \/ \E key_str \in RefKeys :
       /\ RefAcquireClientManaged(key_str)
       /\ UNCHANGED outside_ref
  \/ /\ RefReleaseClientManaged
     /\ UNCHANGED outside_ref
  \/ \E cleanup_scope \in MemRoots :
       /\ RefClear(cleanup_scope)
       /\ UNCHANGED outside_ref
  \/ \E key_str \in RefKeys :
       /\ RefCommitInsert(key_str)
       /\ UNCHANGED outside_ref
  \/ \E key_str \in RefKeys :
       /\ RefCommitDelete(key_str)
       /\ UNCHANGED outside_ref


(***************************************************************************)
(* ScanSpec: get_prefix_committed and GetCustomColumnsForTable over the    *)
(* committed columns of tables whose names and column names are any quoted *)
(* identifiers, a dot included                                             *)
(***************************************************************************)
ScanDbs == {<<Ch.d>>}

ScanTables == {<<Ch.a>>, <<Ch.a, Ch.dot, Ch.b>>}

ScanColumns == {<<Ch.c>>, <<Ch.b>>, <<Ch.b, Ch.dot, Ch.c>>}

NoScan == [call |-> "none", db |-> EmptyStr, table |-> EmptyStr,
           prefix_str |-> EmptyStr, result |-> << >>]

ScanInit ==
  /\ columns_committed = EmptyMap
  /\ scan = NoScan

\* the commit of a staged insertion of the column's entry
ScanCommitInsert(db, table, column) ==
  /\ columns_committed' =
       commit_op(columns_committed,
                 PendingOperation("INSERT",
                   <<ColumnEntry(ColumnKey(db, table, column), <<Ch.e>>,
                                 ManifestVersion, ManifestType)>>,
                   DefaultKey))
  /\ scan' = NoScan

\* the commit of a staged deletion of the column's entry
ScanCommitDelete(db, table, column) ==
  /\ ColumnKey(db, table, column).str \in DOMAIN columns_committed
  /\ columns_committed' =
       commit_op(columns_committed,
                 PendingOperation("DELETE", nullptr,
                                  ColumnKey(db, table, column)))
  /\ scan' = NoScan

\* m_columns.get_prefix_committed(ColumnKeyPrefix(db, table)); an empty
\* table name asks for all tables of the database
ScanGetPrefixCommitted(db, table) ==
  /\ scan' = [call |-> "get_prefix_committed", db |-> db, table |-> table,
              prefix_str |-> ColumnKeyPrefix(db, table),
              result |-> get_prefix_committed(columns_committed,
                                              ColumnKeyPrefix(db, table))]
  /\ UNCHANGED columns_committed

\* VictionaryClient::GetCustomColumnsForTable(db_name, table_name) of the
\* initialized Victionary
ScanGetCustomColumnsForTable(db_name, table_name) ==
  /\ scan' = [call |-> "GetCustomColumnsForTable", db |-> db_name,
              table |-> table_name,
              prefix_str |-> ColumnKeyPrefix(db_name, table_name),
              result |-> get_prefix_committed(columns_committed,
                           ColumnKeyPrefix(db_name, table_name))]
  /\ UNCHANGED columns_committed

outside_scan == <<mapvars, lifevars, refvars, vdfvars, bindvars, writevars,
                 initvars,
                 normvars,
                 semvars,
                 renvars,
                 rowvars>>

ScanNext ==
  \/ \E db \in ScanDbs, table \in ScanTables, column \in ScanColumns :
       /\ ScanCommitInsert(db, table, column)
       /\ UNCHANGED outside_scan
  \/ \E db \in ScanDbs, table \in ScanTables, column \in ScanColumns :
       /\ ScanCommitDelete(db, table, column)
       /\ UNCHANGED outside_scan
  \/ \E db \in ScanDbs, table \in ScanTables \cup {EmptyStr} :
       /\ ScanGetPrefixCommitted(db, table)
       /\ UNCHANGED outside_scan
  \/ \E db_name \in ScanDbs, table_name \in ScanTables :
       /\ ScanGetCustomColumnsForTable(db_name, table_name)
       /\ UNCHANGED outside_scan


(***************************************************************************)
(* VdfSpec: the vdf_handler of one VDF call of a statement, from           *)
(* fix_fields over the rows to cleanup, and the prerun and postrun         *)
(* callbacks of the extension                                              *)
(***************************************************************************)
MaxRows == 2

\* vef_result_type of a callback's result
VefResults == {"VEF_RESULT_VALUE", "VEF_RESULT_NULL", "VEF_RESULT_ERROR"}

\* what a prerun callback may hand back: its result type, whether it set
\* user_data, whether it asked for a larger result buffer; a prerun that
\* reports an error keeps no user_data
PrerunResults ==
  {r \in [type : {"VEF_RESULT_VALUE", "VEF_RESULT_ERROR"},
          user_data : BOOLEAN, larger_buffer : BOOLEAN] :
     r.type = "VEF_RESULT_ERROR" => ~r.user_data /\ ~r.larger_buffer}

NoVdfStmt == [pc |-> "none", prerun |-> FALSE, postrun |-> FALSE,
              rows |-> 0, m_error |-> 0, failed |-> FALSE]

NoCallbacks == [prerun_calls |-> 0, postrun_calls |-> 0, held |-> FALSE]

VdfInit ==
  /\ vdf_stmt = NoVdfStmt
  /\ m_active = FALSE
  /\ m_user_data = nullptr
  /\ callbacks = NoCallbacks

\* a statement that calls a VDF whose descriptor has, or has not, a prerun
\* and a postrun callback: its vdf_handler is constructed
VdfStartStatement(prerun, postrun) ==
  /\ vdf_stmt.pc \in {"none", "done"}
  /\ vdf_stmt' = [NoVdfStmt EXCEPT !.pc = "fix_fields", !.prerun = prerun,
                                   !.postrun = postrun]
  /\ m_active' = FALSE
  /\ m_user_data' = nullptr
  /\ callbacks' = NoCallbacks

\* vdf_handler::fix_fields: what it returns and leaves behind.  alloc_ok:
\* the allocations before prerun succeed; validate_ok: the result of
\* ValidateAndConvertVDFArguments; r: what prerun hands back; realloc_ok:
\* the allocation of the larger result buffer succeeds
fix_fields(has_prerun, alloc_ok, validate_ok, r, realloc_ok, ext) ==
  IF ~alloc_ok \/ ~validate_ok
  THEN [error |-> TRUE, m_active |-> FALSE, user_data |-> nullptr,
        callbacks |-> ext]
  ELSE IF ~has_prerun
  THEN [error |-> FALSE, m_active |-> TRUE, user_data |-> nullptr,
        callbacks |-> ext]
  ELSE LET called == [ext EXCEPT !.prerun_calls = @ + 1,
                                 !.held = r.user_data]
           stored == IF r.user_data THEN <<"user_data">> ELSE nullptr
       IN IF r.type = "VEF_RESULT_ERROR"
          THEN [error |-> TRUE, m_active |-> FALSE, user_data |-> nullptr,
                callbacks |-> called]
          ELSE IF r.larger_buffer /\ ~realloc_ok
          THEN [error |-> TRUE, m_active |-> FALSE, user_data |-> stored,
                callbacks |-> called]
          ELSE [error |-> FALSE, m_active |-> TRUE, user_data |-> stored,
                callbacks |-> called]

VdfFixFields(alloc_ok, validate_ok, r, realloc_ok) ==
  /\ vdf_stmt.pc = "fix_fields"
  /\ LET bound == fix_fields(vdf_stmt.prerun, alloc_ok, validate_ok, r,
                             realloc_ok, callbacks)
     IN /\ m_active' = bound.m_active
        /\ m_user_data' = bound.user_data
        /\ callbacks' = bound.callbacks
        /\ vdf_stmt' = [vdf_stmt EXCEPT
                          !.pc = IF bound.error THEN "end" ELSE "rows",
                          !.failed = bound.error]

\* invoke_numeric / val_str for one row: an error of the row function is a
\* warning and sets m_error
VdfRow(result_type) ==
  /\ vdf_stmt.pc = "rows"
  /\ vdf_stmt.rows < MaxRows
  /\ vdf_stmt' = [vdf_stmt EXCEPT
                    !.rows = @ + 1,
                    !.m_error = IF result_type = "VEF_RESULT_ERROR"
                                THEN 1 ELSE @]
  /\ UNCHANGED <<m_active, m_user_data, callbacks>>

\* the statement stops reading rows, at the last row or at an error
VdfRowsEnd(failed) ==
  /\ vdf_stmt.pc = "rows"
  /\ vdf_stmt' = [vdf_stmt EXCEPT !.pc = "end", !.failed = failed]
  /\ UNCHANGED <<m_active, m_user_data, callbacks>>

\* vdf_handler::cleanup: postrun, which releases the user_data it is given,
\* is called when the handler is active and the descriptor has a postrun
cleanup(active, has_postrun, user_data, ext) ==
  IF active /\ has_postrun
  THEN [ext EXCEPT !.postrun_calls = @ + 1,
                   !.held = IF user_data # nullptr THEN FALSE ELSE @]
  ELSE ext

\* the end of the statement: the host cleans up the function item
VdfCleanup ==
  /\ vdf_stmt.pc = "end"
  /\ callbacks' = cleanup(m_active, vdf_stmt.postrun, m_user_data, callbacks)
  /\ m_active' = FALSE
  /\ vdf_stmt' = [vdf_stmt EXCEPT !.pc = "done"]
  /\ UNCHANGED m_user_data

outside_vdf == <<mapvars, lifevars, refvars, scanvars, bindvars, writevars,
                 initvars,
                 normvars,
                 semvars,
                 renvars,
                 rowvars>>

VdfNext ==
  \/ \E prerun \in BOOLEAN, postrun \in BOOLEAN :
       /\ VdfStartStatement(prerun, postrun)
       /\ UNCHANGED outside_vdf
  \/ \E alloc_ok \in BOOLEAN, validate_ok \in BOOLEAN, r \in PrerunResults, realloc_ok \in BOOLEAN :
       /\ VdfFixFields(alloc_ok, validate_ok, r, realloc_ok)
       /\ UNCHANGED outside_vdf
  \/ \E result_type \in VefResults :
       /\ VdfRow(result_type)
       /\ UNCHANGED outside_vdf
  \/ \E failed \in BOOLEAN :
       /\ VdfRowsEnd(failed)
       /\ UNCHANGED outside_vdf
  \/ /\ VdfCleanup
     /\ UNCHANGED outside_vdf


(***************************************************************************)
(* BindSpec: ValidateAndConvertVDFArguments applied to the arguments of a  *)
(* call of a function of extension e, over the types that are installed    *)
(***************************************************************************)
MaxArgs == 2

\* the types that may be installed: t and u of extension e, t of extension x
BindTypes ==
  {[type_name |-> <<Ch.t>>, extension_name |-> <<Ch.e>>],
   [type_name |-> <<Ch.u>>, extension_name |-> <<Ch.e>>],
   [type_name |-> <<Ch.t>>, extension_name |-> <<Ch.c>>]}

\* vef_type_t of a parameter: custom_type is set for VEF_TYPE_CUSTOM only,
\* and a signature may leave it unset
BindParams ==
  {[id |-> "VEF_TYPE_INT", custom_type |-> nullptr],
   [id |-> "VEF_TYPE_CUSTOM", custom_type |-> nullptr],
   [id |-> "VEF_TYPE_CUSTOM", custom_type |-> <<(<<Ch.t>>)>>],
   [id |-> "VEF_TYPE_CUSTOM", custom_type |-> <<(<<Ch.u>>)>>]}

\* the argument items over the installed types: the NULL literal, a string
\* literal that the type's encode function takes or refuses, a string that
\* is not constant, a column with or without a custom type, an expression
BindItems(installed) ==
  {[type |-> "NULL_ITEM", const_for_execution |-> TRUE, tc |-> nullptr,
    encodable |-> FALSE, encoded |-> FALSE],
   [type |-> "STRING_ITEM", const_for_execution |-> FALSE, tc |-> nullptr,
    encodable |-> TRUE, encoded |-> FALSE],
   [type |-> "FUNC_ITEM", const_for_execution |-> FALSE, tc |-> nullptr,
    encodable |-> FALSE, encoded |-> FALSE]} \cup
  [type : {"STRING_ITEM"}, const_for_execution : {TRUE}, tc : {nullptr},
   encodable : BOOLEAN, encoded : {FALSE}] \cup
  [type : {"FIELD_ITEM"}, const_for_execution : {FALSE},
   tc : {nullptr} \cup {<<d>> : d \in installed}, encodable : {FALSE},
   encoded : {FALSE}]

\* the sets of installed types: extension e, whose function is called,
\* is installed with its type t
InstalledTypes ==
  {installed \in SUBSET BindTypes :
     [type_name |-> <<Ch.t>>, extension_name |-> <<Ch.e>>] \in installed}

SeqsUpTo(S, n) == UNION {[1..k -> S] : k \in 1..n}

NoBind == [call |-> "none", extension_name |-> EmptyStr, installed |-> {},
           signature |-> << >>, args |-> << >>, error |-> FALSE,
           converted |-> << >>]

BindInit == bind = NoBind

\* AreTypesCompatible: the same type name and extension (every type of the
\* model has the version of its extension)
AreTypesCompatible(tc1, tc2) ==
  tc1.type_name = tc2.type_name /\ tc1.extension_name = tc2.extension_name

\* ResolveTypeToContext over the installed types, with the name of the
\* function's extension
ResolveInstalledType(installed, extension_name, type_name) ==
  LET results == {d \in installed :
                    /\ normalize_type_name(d.type_name) =
                         normalize_type_name(type_name)
                    /\ extension_name # EmptyStr =>
                         normalize_extension_name(d.extension_name) =
                           normalize_extension_name(extension_name)}
  IN IF Cardinality(results) > 1 THEN [error |-> TRUE, result |-> nullptr]
     ELSE IF results = {} THEN [error |-> FALSE, result |-> nullptr]
     ELSE [error |-> FALSE, result |-> <<CHOOSE d \in results : TRUE>>]

\* InjectAndEncodeCustomType of an item without a type context
InjectAndEncodeCustomType(item, tc) ==
  IF item.type # "STRING_ITEM"
  THEN [error |-> FALSE, item |-> [item EXCEPT !.tc = <<tc>>]]
  ELSE IF ~item.encodable
  THEN [error |-> TRUE, item |-> [item EXCEPT !.tc = <<tc>>]]
  ELSE [error |-> FALSE,
        item |-> [item EXCEPT !.tc = <<tc>>, !.encoded = TRUE]]

\* the body of the loop of ValidateAndConvertVDFArguments for one argument
validate_argument(installed, extension_name, expected_type, item) ==
  IF expected_type.id # "VEF_TYPE_CUSTOM" THEN [error |-> FALSE, item |-> item]
  ELSE IF item.type = "NULL_ITEM" THEN [error |-> FALSE, item |-> item]
  ELSE IF item.tc # nullptr
  THEN [error |-> /\ expected_type.custom_type # nullptr
                  /\ item.tc[1].type_name # expected_type.custom_type[1],
        item |-> item]
  ELSE IF item.type = "STRING_ITEM" /\ item.const_for_execution
  THEN IF expected_type.custom_type = nullptr
       THEN [error |-> TRUE, item |-> item]
       ELSE LET r == ResolveInstalledType(installed, extension_name,
                                          expected_type.custom_type[1])
            IN IF r.error \/ r.result = nullptr
               THEN [error |-> TRUE, item |-> item]
               ELSE InjectAndEncodeCustomType(item, r.result[1])
  ELSE [error |-> TRUE, item |-> item]

\* ValidateAndConvertVDFArguments: the arguments are checked in order, and
\* the check stops at the first one that is refused
RECURSIVE validate_from(_, _, _, _, _)
validate_from(installed, extension_name, args, signature, i) ==
  IF i > Len(args) THEN [error |-> FALSE, args |-> args]
  ELSE LET one == validate_argument(installed, extension_name, signature[i],
                                    args[i])
           seen == [args EXCEPT ![i] = one.item]
       IN IF one.error THEN [error |-> TRUE, args |-> seen]
          ELSE validate_from(installed, extension_name, seen, signature, i + 1)

ValidateAndConvertVDFArguments(installed, extension_name, args, signature) ==
  IF Len(args) # Len(signature) THEN [error |-> TRUE, args |-> args]
  ELSE validate_from(installed, extension_name, args, signature, 1)

\* the bind of one call of a function of extension e
BindCall(installed, args, signature) ==
  /\ bind.call = "none"
  /\ LET r == ValidateAndConvertVDFArguments(installed, <<Ch.e>>, args,
                                             signature)
     IN bind' = [call |-> "ValidateAndConvertVDFArguments",
                 extension_name |-> <<Ch.e>>, installed |-> installed,
                 signature |-> signature, args |-> args, error |-> r.error,
                 converted |-> r.args]

\* the statement is over
BindEnd ==
  /\ bind.call # "none"
  /\ bind' = NoBind

outside_bind == <<mapvars, lifevars, refvars, scanvars, vdfvars, writevars,
                 initvars,
                 normvars,
                 semvars,
                 renvars,
                 rowvars>>

BindNext ==
  \/ \E installed \in InstalledTypes :
       \E args \in SeqsUpTo(BindItems(installed), MaxArgs), signature \in SeqsUpTo(BindParams, MaxArgs) :
         /\ BindCall(installed, args, signature)
         /\ UNCHANGED outside_bind
  \/ /\ BindEnd
     /\ UNCHANGED outside_bind


(***************************************************************************)
(* WriteSpec: write_uncommitted_to_table of a persistent map: the staged   *)
(* operations of a session are replayed on the rows of the backing table   *)
(* inside the host's transaction                                           *)
(***************************************************************************)
\* the handler call of an operation that fails, if any
HaErrors == {"none", "ha_index_init", "ha_index_read_map", "ha_delete_row",
             "ha_write_row", "ha_update_row"}

NoWrite == [call |-> "none", error |-> FALSE, log |-> << >>]

WriteInit ==
  /\ wmap = [committed |-> MapPut(EmptyMap, <<Ch.a>>, MapEntry(<<Ch.a>>, 0)),
             uncommitted |-> NoSessionLists]
  /\ rows = {<<Ch.a>>}
  /\ rows_saved = {<<Ch.a>>}
  /\ wres = NoWrite

\* ha_index_read_map(HA_READ_KEY_EXACT) of the storage engine
ha_index_read_map(table, key_str, failing) ==
  IF failing = "ha_index_read_map" THEN "HA_ERR_OTHER"
  ELSE IF key_str \notin table THEN "HA_ERR_KEY_NOT_FOUND"
  ELSE "0"

\* TableTraits<EntryType>::write_to_table; a second row with the key of an
\* existing one is a duplicate key error of ha_write_row
write_to_table(table, key_str, failing) ==
  IF failing = "ha_write_row" \/ key_str \in table
  THEN [error |-> TRUE, warning |-> FALSE, table |-> table]
  ELSE [error |-> FALSE, warning |-> FALSE, table |-> table \cup {key_str}]

\* TableTraits<EntryType>::update_in_table
update_in_table(table, key_str, old_key, failing) ==
  LET lookup_key == IF old_key = EmptyStr THEN key_str ELSE old_key
  IN IF failing = "ha_index_init"
        \/ ha_index_read_map(table, lookup_key, failing) # "0"
        \/ failing = "ha_update_row"
        \/ (key_str # lookup_key /\ key_str \in table)
     THEN [error |-> TRUE, warning |-> FALSE, table |-> table]
     ELSE [error |-> FALSE, warning |-> FALSE,
           table |-> (table \ {lookup_key}) \cup {key_str}]

\* a delete_from_table for which a missing row is an error
delete_from_table_strict(table, key_str, failing) ==
  IF failing = "ha_index_init"
     \/ ha_index_read_map(table, key_str, failing) # "0"
     \/ failing = "ha_delete_row"
  THEN [error |-> TRUE, warning |-> FALSE, table |-> table]
  ELSE [error |-> FALSE, warning |-> FALSE, table |-> table \ {key_str}]

\* TableTraits<EntryType>::delete_from_table
delete_from_table(table, key_str, failing) ==
  IF failing = "ha_index_init"
  THEN [error |-> TRUE, warning |-> FALSE, table |-> table]
  ELSE LET error == ha_index_read_map(table, key_str, failing)
       IN IF error = "HA_ERR_KEY_NOT_FOUND"
          THEN [error |-> FALSE, warning |-> TRUE, table |-> table]
          ELSE IF error # "0"
          THEN [error |-> TRUE, warning |-> FALSE, table |-> table]
          ELSE IF failing = "ha_delete_row"
          THEN [error |-> TRUE, warning |-> FALSE, table |-> table]
          ELSE [error |-> FALSE, warning |-> FALSE,
                table |-> table \ {key_str}]

\* the switch of write_uncommitted_to_table for one pending operation
write_op(table, op, failing) ==
  IF op.op_type = "INSERT"
  THEN write_to_table(table, op.entry[1].key.str, failing)
  ELSE IF op.op_type = "UPDATE"
  THEN update_in_table(table, op.entry[1].key.str, op.key.str, failing)
  ELSE delete_from_table(table, op.key.str, failing)

\* write_uncommitted_to_table: the operations are applied in order and the
\* first failure ends the call; log keeps what each operation met
RECURSIVE write_ops(_, _, _, _, _)
write_ops(table, ops, failing, i, log) ==
  IF i > Len(ops) THEN [error |-> FALSE, table |-> table, log |-> log]
  ELSE LET r == write_op(table, ops[i], failing[i])
           line == [op_type |-> ops[i].op_type, key |-> ops[i].key.str,
                    row_existed |-> ops[i].key.str \in table,
                    failing |-> failing[i], error |-> r.error,
                    warning |-> r.warning]
       IN IF r.error
          THEN [error |-> TRUE, table |-> r.table, log |-> Append(log, line)]
          ELSE write_ops(r.table, ops, failing, i + 1, Append(log, line))

write_uncommitted_to_table(map, thd, table, failing) ==
  IF ~has_uncommitted(map, thd)
  THEN [error |-> FALSE, table |-> table, log |-> << >>]
  ELSE write_ops(table, map.uncommitted[thd], failing, 1, << >>)

WriteMarkForInsertion(thd, k) ==
  /\ wres.call = "none"
  /\ Len(wmap.uncommitted[thd]) < MaxOps
  /\ wmap' = MarkForInsertion(wmap, thd, MapEntry(k, 0))
  /\ UNCHANGED <<rows, rows_saved, wres>>

WriteMarkForUpdate(thd, k, old) ==
  /\ wres.call = "none"
  /\ Len(wmap.uncommitted[thd]) < MaxOps
  /\ wmap' = MarkForUpdate(wmap, thd, MapEntry(k, 0), MapKey(old))
  /\ UNCHANGED <<rows, rows_saved, wres>>

WriteMarkForDeletion(thd, k) ==
  /\ wres.call = "none"
  /\ Len(wmap.uncommitted[thd]) < MaxOps
  /\ wmap' = MarkForDeletion(wmap, thd, MapKey(k))
  /\ UNCHANGED <<rows, rows_saved, wres>>

\* write_all_uncommitted_entries of the statement
WriteUncommitted(thd, failing) ==
  /\ wres.call = "none"
  /\ has_uncommitted(wmap, thd)
  /\ LET r == write_uncommitted_to_table(wmap, thd, rows, failing)
     IN /\ rows' = r.table
        /\ wres' = [call |-> "write_uncommitted_to_table",
                    error |-> r.error, log |-> r.log]
  /\ UNCHANGED <<wmap, rows_saved>>

\* end_transaction(thd, false) after a write that succeeded
WriteCommit(thd) ==
  /\ wres.call # "none"
  /\ ~wres.error
  /\ wmap' = commit(wmap, thd)
  /\ rows_saved' = rows
  /\ wres' = NoWrite
  /\ UNCHANGED rows

\* end_transaction(thd, true): the host undoes the row changes
WriteRollback(thd) ==
  /\ has_uncommitted(wmap, thd)
  /\ wmap' = rollback(wmap, thd)
  /\ rows' = rows_saved
  /\ wres' = NoWrite
  /\ UNCHANGED rows_saved

outside_write == <<mapvars, lifevars, refvars, scanvars, vdfvars, bindvars,
                 initvars,
                 normvars,
                 semvars,
                 renvars,
                 rowvars>>

WriteNext ==
  \/ \E k \in MapKeys :
       /\ WriteMarkForInsertion("thd1", k)
       /\ UNCHANGED outside_write
  \/ \E k \in MapKeys, old \in MapKeys \cup {EmptyStr} :
       /\ WriteMarkForUpdate("thd1", k, old)
       /\ UNCHANGED outside_write
  \/ \E k \in MapKeys :
       /\ WriteMarkForDeletion("thd1", k)
       /\ UNCHANGED outside_write
  \/ \E failing \in [1..Len(wmap.uncommitted["thd1"]) -> HaErrors] :
       /\ WriteUncommitted("thd1", failing)
       /\ UNCHANGED outside_write
  \/ /\ WriteCommit("thd1")
     /\ UNCHANGED outside_write
  \/ /\ WriteRollback("thd1")
     /\ UNCHANGED outside_write


(***************************************************************************)
(* InitSpec: VictionaryClient::init called by several threads; each load,  *)
(* exchange and store of the two atomic flags is a step                    *)
(***************************************************************************)
InitThreads == {"t1", "t2", "t3"}

NoCaller == [pc |-> "idle", thd |-> nullptr, saw |-> "none",
             result |-> "none"]

ClientInit ==
  /\ m_initialized = FALSE
  /\ m_initializing = FALSE
  /\ tables = [reloads |-> 0, complete |-> FALSE]
  /\ lock_inits = 0
  /\ caller = [t \in InitThreads |-> NoCaller]

\* a thread calls init(thd)
InitEnter(t, thd) ==
  /\ caller[t].pc = "idle"
  /\ caller' = [caller EXCEPT ![t].pc = "load", ![t].thd = thd]
  /\ UNCHANGED <<m_initialized, m_initializing, tables, lock_inits>>

\* m_initialized.load() of the first condition
InitLoad(t) ==
  /\ caller[t].pc = "load"
  /\ caller' = IF m_initialized
               THEN [caller EXCEPT ![t].pc = "returned",
                                   ![t].saw = "initialized",
                                   ![t].result = "error"]
               ELSE [caller EXCEPT ![t].pc = "exchange"]
  /\ UNCHANGED <<m_initialized, m_initializing, tables, lock_inits>>

\* m_initializing.exchange(true); the scope guard exists only past it
InitExchange(t) ==
  /\ caller[t].pc = "exchange"
  /\ m_initializing' = TRUE
  /\ caller' = IF m_initializing
               THEN [caller EXCEPT ![t].pc = "returned",
                                   ![t].saw = "initializing",
                                   ![t].result = "error"]
               ELSE [caller EXCEPT ![t].pc = "lock_init", ![t].saw = "clear"]
  /\ UNCHANGED <<m_initialized, tables, lock_inits>>

\* the check of thd and mysql_rwlock_init(&m_lock)
InitLockInit(t, lock_ok) ==
  /\ caller[t].pc = "lock_init"
  /\ IF caller[t].thd = nullptr
     THEN /\ caller' = [caller EXCEPT ![t].pc = "guard",
                                      ![t].result = "error"]
          /\ UNCHANGED lock_inits
     ELSE /\ lock_inits' = lock_inits + 1
          /\ caller' = IF lock_ok
                       THEN [caller EXCEPT ![t].pc = "reload"]
                       ELSE [caller EXCEPT ![t].pc = "guard",
                                           ![t].result = "error"]
  /\ UNCHANGED <<m_initialized, m_initializing, tables>>

\* a reload_all_tables that does not look at the flags
reload_unchecked(initialized, initializing, maps, reload_ok) ==
  [error |-> ~reload_ok,
   maps |-> [reloads |-> maps.reloads + 1, complete |-> reload_ok]]

\* reload_all_tables: refused unless initializing and not yet initialized;
\* otherwise the three persistent maps are reloaded under the write lock,
\* and a map that failed to load leaves the reload incomplete
reload_all_tables(initialized, initializing, maps, reload_ok) ==
  IF ~(~initialized /\ initializing) THEN [error |-> TRUE, maps |-> maps]
  ELSE [error |-> ~reload_ok,
        maps |-> [reloads |-> maps.reloads + 1, complete |-> reload_ok]]

InitReload(t, reload_ok) ==
  /\ caller[t].pc = "reload"
  /\ LET r == reload_all_tables(m_initialized, m_initializing, tables,
                                reload_ok)
     IN /\ tables' = r.maps
        /\ caller' = IF r.error
                     THEN [caller EXCEPT ![t].pc = "guard",
                                         ![t].result = "error"]
                     ELSE [caller EXCEPT ![t].pc = "store"]
  /\ UNCHANGED <<m_initialized, m_initializing, lock_inits>>

\* m_initialized.store(true)
InitStore(t) ==
  /\ caller[t].pc = "store"
  /\ m_initialized' = TRUE
  /\ caller' = [caller EXCEPT ![t].pc = "guard", ![t].result = "ok"]
  /\ UNCHANGED <<m_initializing, tables, lock_inits>>

\* the scope guard at the return: m_initializing.store(false)
InitGuard(t) ==
  /\ caller[t].pc = "guard"
  /\ m_initializing' = FALSE
  /\ caller' = [caller EXCEPT ![t].pc = "returned"]
  /\ UNCHANGED <<m_initialized, tables, lock_inits>>

outside_init == <<mapvars, lifevars, refvars, scanvars, vdfvars, bindvars,
                  writevars,
                 normvars,
                 semvars,
                 renvars,
                 rowvars>>

InitNext ==
  \/ \E t \in InitThreads, thd \in {nullptr, <<"thd">>} :
       /\ InitEnter(t, thd)
       /\ UNCHANGED outside_init
  \/ \E t \in InitThreads :
       /\ InitLoad(t)
       /\ UNCHANGED outside_init
  \/ \E t \in InitThreads :
       /\ InitExchange(t)
       /\ UNCHANGED outside_init
  \/ \E t \in InitThreads, lock_ok \in BOOLEAN :
       /\ InitLockInit(t, lock_ok)
       /\ UNCHANGED outside_init
  \/ \E t \in InitThreads, reload_ok \in BOOLEAN :
       /\ InitReload(t, reload_ok)
       /\ UNCHANGED outside_init
  \/ \E t \in InitThreads :
       /\ InitStore(t)
       /\ UNCHANGED outside_init
  \/ \E t \in InitThreads :
       /\ InitGuard(t)
       /\ UNCHANGED outside_init


(***************************************************************************)
(* NormSpec: keys built from names of any letter case, under each value of *)
(* lower_case_table_names                                                  *)
(***************************************************************************)
NormDbs == {<<Ch.d>>, <<Ch.D>>}

\* t.c and c.c are quoted identifiers that contain the separator
NormTables == {<<Ch.t>>, <<Ch.T>>, <<Ch.e>>, <<Ch.t, Ch.dot, Ch.c>>}

NormColumns == {<<Ch.c>>, <<Ch.C>>, <<Ch.e>>, <<Ch.c, Ch.dot, Ch.c>>}

NormExtensions == {<<Ch.e>>, <<Ch.E>>, <<Ch.c>>}

NormTypes == {<<Ch.t>>, <<Ch.T>>}

NoNorm == [kind |-> "none", lower_case_table_names |-> 0,
           a |-> << >>, b |-> << >>, key_a |-> EmptyStr, key_b |-> EmptyStr,
           prefix_a |-> EmptyStr]

NormInit == norm = NoNorm

\* the server option lower_case_table_names: 0 keeps database and table
\* names as typed, 1 and 2 compare them in lower case.  It is set at
\* startup, before any key is built.
NormSetCasing(value) ==
  /\ norm = NoNorm
  /\ host.lower_case_table_names # value
  /\ host' = [host EXCEPT !.lower_case_table_names = value]
  /\ UNCHANGED norm

\* two ColumnKey objects and the ColumnKeyPrefix of the first one's table
\* are constructed
NormColumnKeys(a, b) ==
  /\ norm = NoNorm
  /\ norm' = [kind |-> "column",
              lower_case_table_names |-> host.lower_case_table_names,
              a |-> a, b |-> b,
              key_a |-> ColumnKey(a[1], a[2], a[3]).str,
              key_b |-> ColumnKey(b[1], b[2], b[3]).str,
              prefix_a |-> ColumnKeyPrefix(a[1], a[2])]
  /\ UNCHANGED host

\* two TypeDescriptorKey objects are constructed
NormTypeKeys(a, b) ==
  /\ norm = NoNorm
  /\ norm' = [kind |-> "type",
              lower_case_table_names |-> host.lower_case_table_names,
              a |-> a, b |-> b,
              key_a |-> TypeDescriptorKey(a[1], a[2], a[3]).str,
              key_b |-> TypeDescriptorKey(b[1], b[2], b[3]).str,
              prefix_a |-> EmptyStr]
  /\ UNCHANGED host

\* the key objects are destroyed
NormEnd ==
  /\ norm # NoNorm
  /\ norm' = NoNorm
  /\ UNCHANGED host

outside_norm == <<mapvars, vic, m_lock, mdl, pc, stmt, arena, share_arena,
                  udfs, so_loaded, next_obj, started, refvars, scanvars,
                  vdfvars, bindvars, writevars, initvars,
                 semvars,
                 renvars,
                 rowvars>>

NormNext ==
  \/ \E value \in {0, 1, 2} :
       /\ NormSetCasing(value)
       /\ UNCHANGED outside_norm
  \/ \E a \in NormDbs \X NormTables \X NormColumns,
        b \in NormDbs \X NormTables \X NormColumns :
       /\ NormColumnKeys(a, b)
       /\ UNCHANGED outside_norm
  \/ \E a \in NormTypes \X NormExtensions \X {ManifestVersion},
        b \in NormTypes \X NormExtensions \X {ManifestVersion} :
       /\ NormTypeKeys(a, b)
       /\ UNCHANGED outside_norm
  \/ /\ NormEnd
     /\ UNCHANGED outside_norm


(***************************************************************************)
(* SemverSpec: version strings parsed by Semver::parse and compared by the *)
(* operators of Semver                                                     *)
(***************************************************************************)
\* Semver(): the invalid version 0.0.0
Semver ==
  [valid |-> FALSE, major |-> 0, minor |-> 0, patch |-> 0,
   prerelease |-> << >>, build_metadata |-> << >>]

isdigit(c) == c >= 48 /\ c <= 57

isalnum(c) == isdigit(c) \/ (c >= 65 /\ c <= 90) \/ (c >= 97 /\ c <= 122)

is_numeric(str) == str # << >> /\ \A i \in DOMAIN str : isdigit(str[i])

is_valid_identifier(id) ==
  id # << >> /\ \A i \in DOMAIN id : isalnum(id[i]) \/ id[i] = Ch.minus

\* std::string_view::find of a character from a position on: the position
\* of its first occurrence, or the position past the end (where substr
\* clamps npos to)
find(s, c, pos) ==
  IF \E i \in pos..Len(s) : s[i] = c
  THEN CHOOSE i \in pos..Len(s) : s[i] = c /\ \A j \in pos..(i - 1) : s[j] # c
  ELSE Len(s) + 1

\* strtoul / std::stoul of a string of digits; the digit strings of the
\* model stay far below ULONG_MAX
RECURSIVE stoul(_)
stoul(str) ==
  IF str = << >> THEN 0
  ELSE stoul(SubSeq(str, 1, Len(str) - 1)) * 10 + (str[Len(str)] - 48)

leading_zero(str) == Len(str) > 1 /\ str[1] = Ch.zero

\* the loop that splits a section at its dots: the leading '-', '+' or '.'
\* is removed and the identifier up to the next dot is checked and pushed
RECURSIVE split_identifiers(_, _, _)
split_identifiers(str, numeric_check, ids) ==
  IF str = << >> THEN [ok |-> TRUE, ids |-> ids]
  ELSE LET rest == Tail(str)
           identifier == SubSeq(rest, 1, find(rest, Ch.dot, 1) - 1)
       IN IF ~is_valid_identifier(identifier) THEN [ok |-> FALSE, ids |-> ids]
          ELSE IF numeric_check /\ is_numeric(identifier)
                  /\ leading_zero(identifier)
          THEN [ok |-> FALSE, ids |-> ids]
          ELSE split_identifiers(
                 SubSeq(rest, Len(identifier) + 1, Len(rest)),
                 numeric_check, Append(ids, identifier))

\* Semver::parse: the object after the call (valid is what parse returns)
parse(s) ==
  IF s = << >> THEN Semver
  ELSE
  LET cut == IF find(s, Ch.plus, 1) < find(s, Ch.minus, 1)
             THEN find(s, Ch.plus, 1) ELSE find(s, Ch.minus, 1)
      core_version == SubSeq(s, 1, cut - 1)
      s1 == SubSeq(s, cut, Len(s))
      dots == Cardinality({i \in DOMAIN core_version :
                             core_version[i] = Ch.dot})
      minor_pos == find(core_version, Ch.dot, 1)
      patch_pos == find(core_version, Ch.dot, minor_pos + 1)
      major_str == SubSeq(core_version, 1, minor_pos - 1)
      minor_str == SubSeq(core_version, minor_pos + 1, patch_pos - 1)
      patch_str == SubSeq(core_version, patch_pos + 1, Len(core_version))
      has_prerelease == s1 # << >> /\ s1[1] = Ch.minus
      prerelease_str == SubSeq(s1, 1, find(s1, Ch.plus, 1) - 1)
      prerelease_tmp == IF has_prerelease
                        THEN split_identifiers(prerelease_str, TRUE, << >>)
                        ELSE [ok |-> TRUE, ids |-> << >>]
      s2 == IF has_prerelease
            THEN SubSeq(s1, Len(prerelease_str) + 1, Len(s1)) ELSE s1
      has_build == s2 # << >> /\ s2[1] = Ch.plus
      build_metadata_tmp == IF has_build
                            THEN split_identifiers(s2, FALSE, << >>)
                            ELSE [ok |-> TRUE, ids |-> << >>]
  IN IF dots # 2 THEN Semver
     ELSE IF ~(is_numeric(major_str) /\ is_numeric(minor_str)
               /\ is_numeric(patch_str)) THEN Semver
     ELSE IF leading_zero(major_str) \/ leading_zero(minor_str)
             \/ leading_zero(patch_str) THEN Semver
     ELSE IF ~prerelease_tmp.ok THEN Semver
     ELSE IF ~build_metadata_tmp.ok THEN Semver
     ELSE [valid |-> TRUE, major |-> stoul(major_str),
           minor |-> stoul(minor_str), patch |-> stoul(patch_str),
           prerelease |-> prerelease_tmp.ids,
           build_metadata |-> build_metadata_tmp.ids]

Min2(x, y) == IF x < y THEN x ELSE y

\* the loop of compare_prerelease from identifier i on
RECURSIVE compare_identifiers(_, _, _)
compare_identifiers(left, right, i) ==
  IF i > Min2(Len(left), Len(right))
  THEN IF Len(left) < Len(right) THEN -1
       ELSE IF Len(left) > Len(right) THEN 1 ELSE 0
  ELSE LET l == left[i]
           r == right[i]
           l_numeric == is_numeric(l)
           r_numeric == is_numeric(r)
       IN IF l_numeric /\ r_numeric
          THEN IF stoul(l) < stoul(r) THEN -1
               ELSE IF stoul(l) > stoul(r) THEN 1
               ELSE compare_identifiers(left, right, i + 1)
          ELSE IF l_numeric /\ ~r_numeric THEN -1
          ELSE IF ~l_numeric /\ r_numeric THEN 1
          ELSE IF StrLess(l, r) THEN -1
          ELSE IF StrLess(r, l) THEN 1
          ELSE compare_identifiers(left, right, i + 1)

compare_prerelease(this, other) ==
  IF this.prerelease = << >> /\ other.prerelease # << >> THEN 1
  ELSE IF this.prerelease # << >> /\ other.prerelease = << >> THEN -1
  ELSE IF this.prerelease = << >> /\ other.prerelease = << >> THEN 0
  ELSE compare_identifiers(this.prerelease, other.prerelease, 1)

\* an equality that also compares the build metadata
operator_eq_with_build(this, other) ==
  IF ~this.valid \/ ~other.valid THEN FALSE
  ELSE /\ this.major = other.major
       /\ this.minor = other.minor
       /\ this.patch = other.patch
       /\ this.prerelease = other.prerelease
       /\ this.build_metadata = other.build_metadata

operator_eq(this, other) ==
  IF ~this.valid \/ ~other.valid THEN FALSE
  ELSE /\ this.major = other.major
       /\ this.minor = other.minor
       /\ this.patch = other.patch
       /\ this.prerelease = other.prerelease

operator_ne(this, other) == ~operator_eq(this, other)

operator_lt(this, other) ==
  IF ~this.valid \/ ~other.valid THEN FALSE
  ELSE IF this.major # other.major THEN this.major < other.major
  ELSE IF this.minor # other.minor THEN this.minor < other.minor
  ELSE IF this.patch # other.patch THEN this.patch < other.patch
  ELSE compare_prerelease(this, other) < 0

operator_le(this, other) ==
  operator_lt(this, other) \/ operator_eq(this, other)

operator_gt(this, other) == ~operator_le(this, other)

operator_ge(this, other) == ~operator_lt(this, other)

\* the version strings given to parse
SemverStrings ==
  LET core(x, y, z) == <<x, Ch.dot, y, Ch.dot, z>>
      v100 == core(Ch.one, Ch.zero, Ch.zero)
  IN {v100,
      core(Ch.one, Ch.zero, Ch.one),
      core(Ch.one, Ch.one, Ch.zero),
      core(Ch.two, Ch.zero, Ch.zero),
      v100 \o <<Ch.minus, Ch.a>>,
      v100 \o <<Ch.minus, Ch.a, Ch.dot, Ch.one>>,
      v100 \o <<Ch.minus, Ch.a, Ch.dot, Ch.b>>,
      v100 \o <<Ch.minus, Ch.b>>,
      v100 \o <<Ch.minus, Ch.two>>,
      v100 \o <<Ch.minus, Ch.one, Ch.zero>>,
      v100 \o <<Ch.plus, Ch.a>>,
      v100 \o <<Ch.plus, Ch.b, Ch.dot, Ch.zero, Ch.one>>,
      v100 \o <<Ch.minus, Ch.a, Ch.plus, Ch.b>>,
      v100 \o <<Ch.plus, Ch.a, Ch.minus, Ch.b>>,
      << >>,
      <<Ch.one, Ch.dot, Ch.zero>>,
      <<Ch.zero, Ch.one, Ch.dot, Ch.zero, Ch.dot, Ch.zero>>,
      core(Ch.a, Ch.zero, Ch.zero),
      v100 \o <<Ch.minus>>,
      v100 \o <<Ch.minus, Ch.zero, Ch.one>>,
      v100 \o <<Ch.minus, Ch.a, Ch.dot>>,
      v100 \o <<Ch.plus>>}

NoSemver == [strings |-> << >>, versions |-> << >>, results |-> << >>]

SemverInit == sem = NoSemver

\* the results of the six operators on a pair
compare(a, b) ==
  [eq |-> operator_eq(a, b), ne |-> operator_ne(a, b),
   lt |-> operator_lt(a, b), le |-> operator_le(a, b),
   gt |-> operator_gt(a, b), ge |-> operator_ge(a, b)]

\* three strings are parsed and every pair of the results is compared
SemverParseAndCompare(strings) ==
  /\ sem = NoSemver
  /\ LET versions == [i \in 1..3 |-> parse(strings[i])]
     IN sem' = [strings |-> strings, versions |-> versions,
                results |-> [i \in 1..3 |->
                               [j \in 1..3 |-> compare(versions[i],
                                                       versions[j])]]]

\* the three versions go out of scope
SemverEnd ==
  /\ sem # NoSemver
  /\ sem' = NoSemver

outside_sem == <<mapvars, lifevars, refvars, scanvars, vdfvars, bindvars,
                 writevars, initvars, normvars,
                 renvars,
                 rowvars>>

SemverNext ==
  \/ \E a \in SemverStrings, b \in SemverStrings, c \in SemverStrings :
       /\ SemverParseAndCompare(<<a, b, c>>)
       /\ UNCHANGED outside_sem
  \/ /\ SemverEnd
     /\ UNCHANGED outside_sem


(***************************************************************************)
(* RenameSpec: one ALTER TABLE on the user table, with an optional RENAME  *)
(* TO and one column change, staged by Metadata_modifier::alter_columns    *)
(* and committed into the columns map                                      *)
(***************************************************************************)
\* the columns the user table is created with, the name an ALTER can give
\* to a column, and the name it can give to the table
TableColumnList == <<<<Ch.b>>, <<Ch.c>>>>

TableColumns == {TableColumnList[i] : i \in DOMAIN TableColumnList}

NewColumn == <<Ch.f>>

NewTable == <<Ch.u>>

NoAlter == [pc |-> "none", table |-> EmptyStr, columns |-> << >>,
            alter_info |-> << >>]

AlterInit ==
  /\ acols = NoMap
  /\ alt = NoAlter

\* the Column entry of a column of the extension's type
custom_column(db, table, column) ==
  ColumnEntry(ColumnKey(db, table, column), <<Ch.e>>, ManifestVersion,
              ManifestType)

\* CREATE TABLE d.a with the columns b and c, each of the custom type or of
\* a built-in one; its transaction commits.  columns : name -> is custom
RenCreateTable(columns) ==
  /\ alt.pc = "none"
  /\ LET names == SelectSeq(TableColumnList, LAMBDA c : columns[c])
         to_add == [i \in DOMAIN names |->
                      custom_column(UserDb, UserTable, names[i])]
     IN acols' = commit(mark_modifications(acols, "thd1", << >>, << >>,
                                           to_add), "thd1")
  /\ alt' = [NoAlter EXCEPT !.pc = "table", !.table = UserTable,
                            !.columns = columns]

\* rename_columns_table: every custom column of the old table is scheduled
\* for an update to the new table name
rename_columns_table(custom_columns, new_db, new_table) ==
  [i \in DOMAIN custom_columns |->
     [new_entry |-> ColumnEntry(ColumnKey(new_db, new_table,
                                          custom_columns[i].key.column),
                                custom_columns[i].extension_name,
                                custom_columns[i].extension_version,
                                custom_columns[i].type_name),
      old_key |-> custom_columns[i].key]]

\* the loop over alter_info->drop_list
alter_drop_list(custom_column_names, db, table, drop_list) ==
  LET dropped == SelectSeq(drop_list,
                           LAMBDA name : name \in custom_column_names)
  IN [i \in DOMAIN dropped |->
        ColumnEntry(ColumnKey(db, table, dropped[i]),
                    EmptyStr, EmptyStr, EmptyStr)]

\* the loop over alter_info->alter_list (RENAME COLUMN)
alter_rename_list(custom_columns, db, table, alter_list) ==
  LET renamed == SelectSeq(alter_list, LAMBDA alter :
                   \E i \in DOMAIN custom_columns :
                     custom_columns[i].key.column = alter.name)
  IN [i \in DOMAIN renamed |->
        LET old_entry == custom_columns[
              CHOOSE j \in DOMAIN custom_columns :
                /\ custom_columns[j].key.column = renamed[i].name
                /\ \A k \in 1..(j - 1) :
                     custom_columns[k].key.column # renamed[i].name]
        IN [new_entry |-> ColumnEntry(
                            ColumnKey(db, table, renamed[i].m_new_name),
                            old_entry.extension_name,
                            old_entry.extension_version,
                            old_entry.type_name),
            old_key |-> old_entry.key]]

\* the loop over alter_info->create_list, from field i on
RECURSIVE alter_create_list(_, _, _, _, _, _)
alter_create_list(custom_column_names, db, table, create_list, i, lists) ==
  IF i > Len(create_list) THEN lists
  ELSE
  LET field == create_list[i]
      is_custom_type == field.custom
      was_custom_type == field.change # nullptr
                         /\ field.change[1] \in custom_column_names
      removal == ColumnEntry(ColumnKey(db, table,
                               IF field.change = nullptr THEN EmptyStr
                               ELSE field.change[1]),
                             EmptyStr, EmptyStr, EmptyStr)
      addition == custom_column(db, table, field.field_name)
      removes == field.change # nullptr /\ was_custom_type
      adds == is_custom_type
  IN alter_create_list(custom_column_names, db, table, create_list, i + 1,
       [to_remove |-> IF removes THEN Append(lists.to_remove, removal)
                      ELSE lists.to_remove,
        to_add |-> IF adds THEN Append(lists.to_add, addition)
                   ELSE lists.to_add])

\* Metadata_modifier::alter_columns: the three lists it leaves
alter_columns_lists(committed, db_name, table_name, alter_info) ==
  LET custom_columns == get_prefix_committed(committed,
                          ColumnKeyPrefix(db_name, table_name))
      to_rename_table ==
        IF alter_info.new_table_name # nullptr
        THEN rename_columns_table(custom_columns, db_name,
                                  alter_info.new_table_name[1])
        ELSE << >>
      custom_column_names == {custom_columns[i].key.column :
                                i \in DOMAIN custom_columns}
      dropped == alter_drop_list(custom_column_names, db_name, table_name,
                                 alter_info.drop_list)
      renamed == alter_rename_list(custom_columns, db_name, table_name,
                                   alter_info.alter_list)
      created == alter_create_list(custom_column_names, db_name, table_name,
                   alter_info.create_list, 1,
                   [to_remove |-> dropped, to_add |-> << >>])
  IN [to_remove |-> created.to_remove,
      to_rename |-> to_rename_table \o renamed,
      to_add |-> created.to_add]

\* what the host server makes of the table: its name and its columns after
\* the ALTER TABLE
alter_table(table, columns, alter_info) ==
  LET gone == {alter_info.drop_list[i] : i \in DOMAIN alter_info.drop_list}
              \cup {alter_info.alter_list[i].name :
                      i \in DOMAIN alter_info.alter_list}
              \cup {alter_info.create_list[i].change[1] :
                      i \in {j \in DOMAIN alter_info.create_list :
                               alter_info.create_list[j].change # nullptr}}
      renamed == {<<alter_info.alter_list[i].m_new_name,
                    columns[alter_info.alter_list[i].name]>> :
                    i \in DOMAIN alter_info.alter_list}
      created == {<<alter_info.create_list[i].field_name,
                    alter_info.create_list[i].custom>> :
                    i \in DOMAIN alter_info.create_list}
      kept == {<<c, columns[c]>> : c \in DOMAIN columns \ gone}
      all == kept \cup renamed \cup created
  IN [table |-> IF alter_info.new_table_name # nullptr
                THEN alter_info.new_table_name[1] ELSE table,
      columns |-> [c \in {p[1] : p \in all} |->
                     (CHOOSE p \in all : p[1] = c)[2]]]

\* the ALTER TABLE statements on the table: no column change, DROP COLUMN,
\* RENAME COLUMN, ADD COLUMN, or CHANGE / MODIFY COLUMN of an existing
\* column; with or without RENAME TO
AlterInfos(columns) ==
  LET plain == [new_table_name |-> nullptr, drop_list |-> << >>,
                alter_list |-> << >>, create_list |-> << >>]
      changes ==
        {plain}
        \cup {[plain EXCEPT !.drop_list = <<c>>] : c \in DOMAIN columns}
        \cup {[plain EXCEPT !.alter_list =
                 <<[name |-> c, m_new_name |-> NewColumn]>>] :
                c \in DOMAIN columns}
        \cup {[plain EXCEPT !.create_list =
                 <<[field_name |-> NewColumn, change |-> nullptr,
                    custom |-> custom]>>] : custom \in BOOLEAN}
        \cup {[plain EXCEPT !.create_list =
                 <<[field_name |-> IF same THEN c ELSE NewColumn,
                    change |-> <<c>>, custom |-> custom]>>] :
                c \in DOMAIN columns, same \in BOOLEAN, custom \in BOOLEAN}
  IN changes \cup {[a EXCEPT !.new_table_name = <<NewTable>>] : a \in changes}

\* process_alter: alter_columns collects the lists, lock_and_apply stages
\* them with mark_victionary_modifications
RenProcessAlter(alter_info) ==
  /\ alt.pc = "table"
  /\ LET lists == alter_columns_lists(acols.committed, UserDb, alt.table,
                                      alter_info)
     IN acols' = mark_modifications(acols, "thd1", lists.to_remove,
                                    lists.to_rename, lists.to_add)
  /\ alt' = [alt EXCEPT !.pc = "altering", !.alter_info = alter_info]

\* the statement's transaction commits: the host has altered the table and
\* the columns map applies the staged operations
RenCommit ==
  /\ alt.pc = "altering"
  /\ acols' = commit(acols, "thd1")
  /\ LET after == alter_table(alt.table, alt.columns, alt.alter_info)
     IN alt' = [alt EXCEPT !.pc = "altered", !.table = after.table,
                           !.columns = after.columns]

\* the statement's transaction rolls back: the table stays as it was
RenRollback ==
  /\ alt.pc = "altering"
  /\ acols' = rollback(acols, "thd1")
  /\ alt' = [alt EXCEPT !.pc = "table", !.alter_info = << >>]

outside_ren == <<mapvars, lifevars, refvars, scanvars, vdfvars, bindvars,
                 writevars, initvars, normvars, semvars,
                 rowvars>>

RenameNext ==
  \/ \E columns \in [TableColumns -> BOOLEAN] :
       /\ RenCreateTable(columns)
       /\ UNCHANGED outside_ren
  \/ \E alter_info \in AlterInfos(alt.columns) :
       /\ RenProcessAlter(alter_info)
       /\ UNCHANGED outside_ren
  \/ /\ RenCommit
     /\ UNCHANGED outside_ren
  \/ /\ RenRollback
     /\ UNCHANGED outside_ren


(***************************************************************************)
(* RowSpec: the statements that stage Column entries, and                  *)
(* write_uncommitted_to_table with TableTraits<ColumnEntry> on the rows of *)
(* villagesql.custom_columns.  A row is the triple of its key fields.      *)
(***************************************************************************)
\* the column names the statements type
RowColumns == {<<Ch.c>>, <<Ch.C>>, <<Ch.b>>}

NoColumnWrite == [pc |-> "idle", table |-> UserTable, old_table |-> UserTable,
                  saved |-> {}, error |-> FALSE, log |-> << >>]

RowInit ==
  /\ ccols = NoMap
  /\ crows = {}
  /\ cwrite = NoColumnWrite

\* ha_index_read_map(HA_READ_KEY_EXACT) on the primary key (db_name,
\* table_name, column_name); the key columns have a binary collation
column_index_read(table, db, tbl, col) == <<db, tbl, col>> \in table

\* TableTraits<ColumnEntry>::read_from_table: the key of the entry of a row
column_read_from_table(row) == ColumnKey(row[1], row[2], row[3])

\* TableTraits<ColumnEntry>::write_to_table: the fields are the components
\* of the key as the entry holds them
column_write_to_table(table, entry) ==
  LET row == <<entry.key.db, entry.key.table, entry.key.column>>
  IN IF row \in table
     THEN [error |-> TRUE, found |-> FALSE, table |-> table]
     ELSE [error |-> FALSE, found |-> FALSE, table |-> table \cup {row}]

\* TableTraits<ColumnEntry>::update_in_table: the probe fields are cut out
\* of the key string at its first two dots
column_update_in_table(table, entry, old_key) ==
  LET lookup_key == IF old_key = EmptyStr THEN entry.key.str ELSE old_key
      first_dot == find(lookup_key, Ch.dot, 1)
      second_dot == find(lookup_key, Ch.dot, first_dot + 1)
      old_db == SubSeq(lookup_key, 1, first_dot - 1)
      old_table == SubSeq(lookup_key, first_dot + 1, second_dot - 1)
      old_column == SubSeq(lookup_key, second_dot + 1, Len(lookup_key))
      row == <<entry.key.db, entry.key.table, entry.key.column>>
  IN IF first_dot > Len(lookup_key) \/ second_dot > Len(lookup_key)
     THEN [error |-> TRUE, found |-> FALSE, table |-> table]
     ELSE IF ~column_index_read(table, old_db, old_table, old_column)
     THEN [error |-> TRUE, found |-> FALSE, table |-> table]
     ELSE IF row # <<old_db, old_table, old_column>> /\ row \in table
     THEN [error |-> TRUE, found |-> TRUE, table |-> table]
     ELSE [error |-> FALSE, found |-> TRUE,
           table |-> (table \ {<<old_db, old_table, old_column>>})
                     \cup {row}]

\* TableTraits<ColumnEntry>::delete_from_table: a row that is not found is a
\* warning
column_delete_from_table(table, entry) ==
  IF ~column_index_read(table, entry.key.db, entry.key.table,
                        entry.key.column)
  THEN [error |-> FALSE, found |-> FALSE, table |-> table]
  ELSE [error |-> FALSE, found |-> TRUE,
        table |-> table \ {<<entry.key.db, entry.key.table,
                             entry.key.column>>}]

\* the switch of write_uncommitted_to_table with the traits of ColumnEntry
column_write_op(table, op) ==
  IF op.op_type = "INSERT" THEN column_write_to_table(table, op.entry[1])
  ELSE IF op.op_type = "UPDATE"
  THEN column_update_in_table(table, op.entry[1], op.key.str)
  ELSE column_delete_from_table(table,
         ColumnEntry(op.key, EmptyStr, EmptyStr, EmptyStr))

RECURSIVE column_write_ops(_, _, _, _)
column_write_ops(table, ops, i, log) ==
  IF i > Len(ops) THEN [error |-> FALSE, table |-> table, log |-> log]
  ELSE LET r == column_write_op(table, ops[i])
           line == [op_type |-> ops[i].op_type, found |-> r.found,
                    error |-> r.error]
       IN IF r.error
          THEN [error |-> TRUE, table |-> r.table, log |-> Append(log, line)]
          ELSE column_write_ops(r.table, ops, i + 1, Append(log, line))

\* the custom columns of the table, as GetCustomColumnsForTable returns them
RowCustomColumns ==
  get_prefix_committed(ccols.committed, ColumnKeyPrefix(UserDb, cwrite.table))

\* the host has a column of this name in the table (column names are
\* compared without regard to case)
RowHasColumn(column) ==
  \E i \in DOMAIN RowCustomColumns :
    casedn(RowCustomColumns[i].key.column) = casedn(column)

\* ALTER TABLE ... ADD COLUMN column <custom type> (or the CREATE TABLE):
\* add_columns collects the entry and lock_and_apply stages it
RowAddColumn(column) ==
  /\ cwrite.pc = "idle"
  /\ ~RowHasColumn(column)
  /\ ccols' = mark_modifications(ccols, "thd1", << >>, << >>,
                <<custom_column(UserDb, cwrite.table, column)>>)
  /\ cwrite' = [cwrite EXCEPT !.pc = "staged", !.saved = crows]
  /\ UNCHANGED crows

\* ALTER TABLE ... RENAME COLUMN name TO new_name
RowRenameColumn(name, new_name) ==
  /\ cwrite.pc = "idle"
  /\ RowHasColumn(name) /\ ~RowHasColumn(new_name)
  /\ ccols' = mark_modifications(ccols, "thd1", << >>,
                alter_rename_list(RowCustomColumns, UserDb, cwrite.table,
                  <<[name |-> name, m_new_name |-> new_name]>>),
                << >>)
  /\ cwrite' = [cwrite EXCEPT !.pc = "staged", !.saved = crows]
  /\ UNCHANGED crows

\* RENAME TABLE to new_table: rename_columns_table
RowRenameTable(new_table) ==
  /\ cwrite.pc = "idle"
  /\ new_table # cwrite.table
  /\ ccols' = mark_modifications(ccols, "thd1", << >>,
                rename_columns_table(RowCustomColumns, UserDb, new_table),
                << >>)
  /\ cwrite' = [cwrite EXCEPT !.pc = "staged", !.saved = crows,
                              !.table = new_table]
  /\ UNCHANGED crows

\* ALTER TABLE ... DROP COLUMN name
RowDropColumn(name) ==
  /\ cwrite.pc = "idle"
  /\ RowHasColumn(name)
  /\ ccols' = mark_modifications(ccols, "thd1",
                alter_drop_list({RowCustomColumns[i].key.column :
                                   i \in DOMAIN RowCustomColumns},
                                UserDb, cwrite.table, <<name>>),
                << >>, << >>)
  /\ cwrite' = [cwrite EXCEPT !.pc = "staged", !.saved = crows]
  /\ UNCHANGED crows

\* write_all_uncommitted_entries: write_uncommitted_to_table of the columns
\* map
RowWrite ==
  /\ cwrite.pc = "staged"
  /\ LET r == IF ~has_uncommitted(ccols, "thd1")
              THEN [error |-> FALSE, table |-> crows, log |-> << >>]
              ELSE column_write_ops(crows, ccols.uncommitted["thd1"], 1,
                                    << >>)
     IN /\ crows' = r.table
        /\ cwrite' = [cwrite EXCEPT !.pc = "written", !.error = r.error,
                                    !.log = r.log]
  /\ UNCHANGED ccols

\* end_transaction(thd, false) after a write that succeeded
RowCommit ==
  /\ cwrite.pc = "written"
  /\ ~cwrite.error
  /\ ccols' = commit(ccols, "thd1")
  /\ cwrite' = [NoColumnWrite EXCEPT !.table = cwrite.table,
                                     !.old_table = cwrite.table]
  /\ UNCHANGED crows

\* end_transaction(thd, true): the host undoes the row changes and the
\* rename of the table
RowRollback ==
  /\ cwrite.pc \in {"staged", "written"}
  /\ ccols' = rollback(ccols, "thd1")
  /\ crows' = cwrite.saved
  /\ cwrite' = [NoColumnWrite EXCEPT !.table = cwrite.old_table,
                                     !.old_table = cwrite.old_table]

outside_row == <<mapvars, lifevars, refvars, scanvars, vdfvars, bindvars,
                 writevars, initvars, normvars, semvars, renvars>>

RowNext ==
  \/ \E column \in RowColumns :
       /\ RowAddColumn(column)
       /\ UNCHANGED outside_row
  \/ \E name \in RowColumns, new_name \in RowColumns :
       /\ RowRenameColumn(name, new_name)
       /\ UNCHANGED outside_row
  \/ \E new_table \in {UserTable, NewTable} :
       /\ RowRenameTable(new_table)
       /\ UNCHANGED outside_row
  \/ \E name \in RowColumns :
       /\ RowDropColumn(name)
       /\ UNCHANGED outside_row
  \/ /\ RowWrite
     /\ UNCHANGED outside_row
  \/ /\ RowCommit
     /\ UNCHANGED outside_row
  \/ /\ RowRollback
     /\ UNCHANGED outside_row



(***************************************************************************)
(* Specifications                                                          *)
(***************************************************************************)
Init == MapInit /\ LifeInit /\ RefInit /\ ScanInit /\ VdfInit /\ BindInit
        /\ WriteInit /\ ClientInit /\ NormInit /\ SemverInit /\ AlterInit /\ RowInit

MapSpec == Init /\ [][MapNext]_vars

Spec == Init /\ [][Next]_vars

CallSpec == Init /\ [][CallNext]_vars

AlterSpec == Init /\ [][AlterNext]_vars

RefSpec == Init /\ [][RefNext]_vars

ScanSpec == Init /\ [][ScanNext]_vars

VdfSpec == Init /\ [][VdfNext]_vars

BindSpec == Init /\ [][BindNext]_vars

WriteSpec == Init /\ [][WriteNext]_vars

InitSpec == Init /\ [][InitNext]_vars

NormSpec == Init /\ [][NormNext]_vars

SemverSpec == Init /\ [][SemverNext]_vars

RenameSpec == Init /\ [][RenameNext]_vars

RowSpec == Init /\ [][RowNext]_vars

(***************************************************************************)
(* Properties of the staged map (MapSpec)                                  *)
(***************************************************************************)
\* the operation is one on key_str: it names key_str as the key it writes,
\* as the key it deletes, or as the key it renames from
OpIsOn(op, key_str) ==
  \/ op.op_type \in {"INSERT", "UPDATE"} /\ op.entry[1].key.str = key_str
  \/ op.op_type = "DELETE" /\ op.key.str = key_str
  \/ op.op_type = "UPDATE" /\ op.key.str = key_str

OpsOn(ops, key_str) == {i \in 1..Len(ops) : OpIsOn(ops[i], key_str)}

MaxOf(S) == CHOOSE i \in S : \A j \in S : j <= i

\* C1: for every session S and key k, get(S, k) is the entry of the last
\* pending operation of S on k, nothing if that operation is a Delete, and
\* get_committed(k) when S has no pending operation on k.
GetReturnsLastPendingOp ==
  \A thd \in MapSessions, k \in MapKeys :
    LET ops == tmap.uncommitted[thd]
        on == OpsOn(ops, k)
    IN get(tmap.committed, ops, k) =
         IF on = {} THEN get_committed(tmap.committed, k)
         ELSE IF ops[MaxOf(on)].op_type = "DELETE" THEN nullptr
         ELSE ops[MaxOf(on)].entry

\* a session holds an Insert and a later Delete on one key and reads nothing,
\* while the other session reads the committed entry of that key
GetAfterInsertThenDelete ==
  \E thd \in MapSessions, k \in MapKeys :
    LET ops == tmap.uncommitted[thd]
    IN /\ \E i, j \in 1..Len(ops) :
            /\ i < j
            /\ ops[i].op_type = "INSERT" /\ OpIsOn(ops[i], k)
            /\ ops[j].op_type = "DELETE" /\ OpIsOn(ops[j], k)
            /\ j = MaxOf(OpsOn(ops, k))
       /\ get(tmap.committed, ops, k) = nullptr
       /\ get_committed(tmap.committed, k) # nullptr

\* what the list leaves under key_str when applied in staging order to pre:
\* the last operation that writes or removes key_str decides
WritesKey(op, key_str) ==
  op.op_type \in {"INSERT", "UPDATE"} /\ op.entry[1].key.str = key_str

RemovesKey(op, key_str) ==
  \/ op.op_type = "DELETE" /\ op.key.str = key_str
  \/ /\ op.op_type = "UPDATE" /\ op.key.str = key_str
     /\ op.entry[1].key.str # key_str

AppliedInOrder(pre, ops, key_str) ==
  LET eff == {i \in 1..Len(ops) :
                WritesKey(ops[i], key_str) \/ RemovesKey(ops[i], key_str)}
  IN IF eff = {} THEN get_committed(pre, key_str)
     ELSE IF WritesKey(ops[MaxOf(eff)], key_str) THEN ops[MaxOf(eff)].entry
     ELSE nullptr

\* C2: after commit(S), get_committed(k) is, for every key, what applying the
\* pending operations of S in staging order to the committed map of just
\* before leaves there; a Delete followed by an Insert on one key leaves the
\* inserted entry, and a renaming Update followed by a Delete of the old key
\* leaves only the new key.
CommitAppliesInStagingOrder ==
  last.kind = "commit" =>
    /\ \A k \in MapKeys :
         get_committed(tmap.committed, k) = AppliedInOrder(last.pre, last.ops, k)
    /\ \A k \in MapKeys :
         (/\ Len(last.ops) = 2
          /\ last.ops[1].op_type = "DELETE" /\ last.ops[1].key.str = k
          /\ last.ops[2].op_type = "INSERT" /\ last.ops[2].entry[1].key.str = k)
         => get_committed(tmap.committed, k) = last.ops[2].entry
    /\ \A k, k2 \in MapKeys :
         (/\ Len(last.ops) = 2 /\ k # k2
          /\ last.ops[1].op_type = "UPDATE" /\ last.ops[1].key.str = k
          /\ last.ops[1].entry[1].key.str = k2
          /\ last.ops[2].op_type = "DELETE" /\ last.ops[2].key.str = k)
         => /\ get_committed(tmap.committed, k) = nullptr
            /\ get_committed(tmap.committed, k2) = last.ops[1].entry

\* a commit of <<Update renaming a to b, Delete a>> over a committed a
CommittedRenameThenDeleteOld ==
  /\ last.kind = "commit"
  /\ Len(last.ops) = 2
  /\ last.ops[1].op_type = "UPDATE" /\ last.ops[1].key.str = <<Ch.a>>
  /\ last.ops[1].entry[1].key.str = <<Ch.b>>
  /\ last.ops[2].op_type = "DELETE" /\ last.ops[2].key.str = <<Ch.a>>
  /\ <<Ch.a>> \in DOMAIN last.pre
  /\ DOMAIN tmap.committed = {<<Ch.b>>}

\* C3: rollback(S) changes no committed entry; after it get_committed returns
\* for every key what it returned before S staged anything, provided no other
\* session committed in between.
RollbackLeavesCommitted ==
  /\ [](last.kind = "rollback" =>
          /\ tmap.committed = last.pre
          /\ (last.ops # << >> /\ last.clean) =>
               \A k \in MapKeys :
                 get_committed(tmap.committed, k) = get_committed(last.snap, k))
  /\ [][\A thd \in MapSessions :
          MapRollback(thd) => tmap'.committed = tmap.committed]_vars

\* a session staged an update of the committed a, a rename and a delete, and
\* rolled back
RolledBackStagedOps ==
  /\ last.kind = "rollback" /\ last.clean
  /\ \E i \in 1..Len(last.ops) : last.ops[i].op_type = "DELETE"
  /\ \E i \in 1..Len(last.ops) : last.ops[i].op_type = "UPDATE"
  /\ <<Ch.a>> \in DOMAIN last.snap
  /\ OpsOn(last.ops, <<Ch.a>>) # {}

\* what a session other than the stager can read of the map
ReadsOf(map, thd) ==
  <<[k \in MapKeys |-> get(map.committed, map.uncommitted[thd], k)],
    [k \in MapKeys |-> get_committed(map.committed, k)],
    [k \in MapKeys |-> get_prefix_committed(map.committed, k)],
    [k \in MapKeys |-> has_prefix_committed(map.committed, k)],
    get_all_committed(map.committed)>>

\* C4: an operation staged by S is visible to S at once through get(S, .),
\* and no other session T observes it (get(T, .), get_committed, prefix
\* scans, full scans) before S commits.
StagedOpsAreIsolated ==
  [][\A thd \in MapSessions :
       (Len(tmap'.uncommitted[thd]) = Len(tmap.uncommitted[thd]) + 1) =>
         LET op == tmap'.uncommitted[thd][Len(tmap'.uncommitted[thd])]
             k == IF op.entry # nullptr THEN op.entry[1].key.str ELSE op.key.str
         IN /\ get(tmap'.committed, tmap'.uncommitted[thd], k) = op.entry
            /\ \A t \in MapSessions \ {thd} : ReadsOf(tmap', t) = ReadsOf(tmap, t)]_vars

\* thd1 reads its own staged insert of b while thd2 and get_committed do not
StagedInsertSeenOnlyByStager ==
  /\ get(tmap.committed, tmap.uncommitted["thd1"], <<Ch.b>>) # nullptr
  /\ get(tmap.committed, tmap.uncommitted["thd2"], <<Ch.b>>) = nullptr
  /\ get_committed(tmap.committed, <<Ch.b>>) = nullptr
  /\ tmap.uncommitted["thd2"] # << >>

(***************************************************************************)
(* Properties of the statements (Spec)                                     *)
(***************************************************************************)
\* the session is inside commit_all_tables with some of its staged
\* operations applied and some still pending
PartlyCommitted(thd) ==
  /\ pc[thd] = "commit_maps"
  /\ stmt[thd].applied > 0
  /\ \E n \in DOMAIN vic : vic[n].uncommitted[thd] # << >>

\* the steps in which thd takes the read or the write guard
TakesGuard(thd) ==
  \/ rollback_all_tables(thd)
  \/ commit_all_tables_begin(thd, TRUE)
  \/ \E write_ok \in BOOLEAN : write_all_uncommitted_entries(thd, write_ok)
  \/ install_check(thd)
  \/ \E failure \in {"none", "types", "vdfs"} : install_register(thd, failure)
  \/ install_mark(thd, TRUE)
  \/ \E view \in DescriptorViews(vic.type_contexts.committed) :
       uninstall_remove(thd, TRUE, view)
  \/ create_parse(thd)
  \/ drop_collect(thd)
  \/ validate_entries(thd)
  \/ \E open_ok \in BOOLEAN : mark_victionary_modifications(thd, open_ok)
  \/ MaybeInjectCustomType(thd)

GuardedPcs ==
  {"rollback", "commit", "write", "install_check", "install_register",
   "install_mark", "uninstall_remove", "create_parse", "drop_collect",
   "ddl_validate", "ddl_mark", "open_table"}

\* C5: commit is atomic across the six maps: while a session has applied
\* some but not all of its staged operations, no other session takes the
\* read or the write guard, so none observes the partly committed maps.
CommitIsAtomicAcrossMaps ==
  [][\A s \in Sessions, thd \in Sessions :
       (s # thd /\ PartlyCommitted(s)) => ~TakesGuard(thd)]_vars

\* a session is between two maps of its commit, holding the write guard,
\* while another session waits at a step that needs a guard
WaitingOnPartlyCommitted ==
  \E s \in Sessions, thd \in Sessions :
    /\ s # thd
    /\ PartlyCommitted(s)
    /\ m_lock = s
    /\ pc[thd] \in GuardedPcs

\* the key names the extension, whatever the letter case it was typed in
OwnedBy(key, extension_name) ==
  normalize_extension_name(key.extension_name) =
    normalize_extension_name(extension_name)

IsInstalled(extension_name) ==
  ExtensionKey(extension_name).str \in DOMAIN vic.extensions.committed

\* a committed Column references the extension at its committed version, or
\* a committed TypeContext or TypeDescriptor of the extension has a strong
\* reference count greater than 1
ReferencedOrInUse(extension_name) ==
  LET version ==
        vic.extensions.committed[ExtensionKey(extension_name).str].extension_version
  IN \/ \E k \in DOMAIN vic.columns.committed :
          /\ OwnedBy(vic.columns.committed[k], extension_name)
          /\ vic.columns.committed[k].extension_version = version
     \/ \E k \in DOMAIN vic.type_contexts.committed :
          /\ OwnedBy(vic.type_contexts.committed[k].key.descriptor_key,
                     extension_name)
          /\ get_use_count(vic.type_contexts.committed, k) > 1
     \/ \E k \in DOMAIN vic.type_descriptors.committed :
          /\ OwnedBy(vic.type_descriptors.committed[k].key, extension_name)
          /\ get_use_count(vic.type_descriptors.committed, k) > 1

\* C6: UNINSTALL EXTENSION E of an installed E is refused if and only if a
\* committed Column references E at its committed version or a committed
\* TypeContext or TypeDescriptor of E has a use count above 1; otherwise it
\* proceeds.
UninstallRefusedIffReferenced ==
  [][\A thd \in Sessions :
       \A view \in DescriptorViews(vic.type_contexts.committed) :
         (uninstall_remove(thd, TRUE, view) /\ IsInstalled(stmt[thd].name))
         => /\ stmt'[thd].verdict \in {"columns", "in_use", "proceed"}
            /\ (stmt'[thd].verdict # "proceed") =
                 ReferencedOrInUse(stmt[thd].name)]_vars

\* the strong references held outside the Victionary
HeldOutside ==
  UNION {SeqRange(arena[t]) : t \in Sessions} \cup SeqRange(share_arena)

CommittedObjects ==
  {e.id : e \in MapRange(vic.type_contexts.committed)} \cup
  {e.id : e \in MapRange(vic.type_descriptors.committed)}

\* C7: no TypeDescriptor or TypeContext leaves the committed map while a
\* strong reference to it is held outside the Victionary: every object an
\* arena holds a reference to is still committed.
HeldEntriesStayCommitted == HeldOutside \subseteq CommittedObjects

\* C8: each TypeContext of the committed type_contexts map refers to a
\* TypeDescriptor that is in the committed type_descriptors map (in every
\* state in which no commit_all_tables is under way).
ContextsHaveCommittedDescriptor ==
  (\A t \in Sessions : pc[t] # "commit_maps") =>
    \A k \in DOMAIN vic.type_contexts.committed :
      \E d \in DOMAIN vic.type_descriptors.committed :
        vic.type_descriptors.committed[d].id =
          vic.type_contexts.committed[k].descriptor

\* C9: an UNINSTALL EXTENSION has unregistered the VDFs and unloaded the
\* shared object only if its transaction has committed.
UnloadOnlyAfterCommit ==
  \A thd \in Sessions : stmt[thd].unloaded => stmt[thd].txn = "committed"

\* C10: every committed Column names a (type, extension, version) for which a
\* TypeDescriptor with that type, extension and version is committed (in
\* every state in which no commit_all_tables is under way).
ColumnsHaveCommittedDescriptor ==
  (\A t \in Sessions : pc[t] # "commit_maps") =>
    \A k \in DOMAIN vic.columns.committed :
      LET col == vic.columns.committed[k]
          type_descriptor ==
            get_committed(vic.type_descriptors.committed,
              TypeDescriptorKey(col.type_name, col.extension_name,
                                col.extension_version).str)
      IN type_descriptor # nullptr


\* the extensions a statement's lists refer to: the extension of each entry
\* to add and to rename, of each committed column to remove, and of each
\* function to call
ReferencedExtensions(thd) ==
  {stmt[thd].to_add[i].extension_name : i \in DOMAIN stmt[thd].to_add} \cup
  {vic.columns.committed[k].extension_name :
     k \in {stmt[thd].to_remove[i].key.str : i \in DOMAIN stmt[thd].to_remove}
           \cap DOMAIN vic.columns.committed} \cup
  {stmt[thd].to_rename[i].new_entry.extension_name :
     i \in DOMAIN stmt[thd].to_rename} \cup
  {stmt[thd].to_call[i].extension_name : i \in DOMAIN stmt[thd].to_call}

\* C11: once lock_and_apply validates or stages, the session holds a shared
\* EXTENSION lock on every extension its to_add, to_remove, to_rename and
\* to_call lists refer to.
LockAndApplyHoldsSharedLocks ==
  \A thd \in Sessions :
    pc[thd] \in {"ddl_validate", "ddl_mark"} =>
      \A extension_name \in ReferencedExtensions(thd) :
        MdlRequest(extension_name, "S") \in mdl[thd]


\* the statement calls a function and lock_and_apply has taken its locks:
\* from before the first row until the statement ends
CallsFunctionOf(thd, extension_name) ==
  /\ stmt[thd].kind = "CALL"
  /\ pc[thd] \in {"ddl_validate", "ddl_mark", "call_rows"}
  /\ \E i \in DOMAIN stmt[thd].to_call :
       normalize_extension_name(stmt[thd].to_call[i].extension_name) =
         normalize_extension_name(extension_name)

\* C12: while a statement that calls a function of E runs, from before its
\* first row until it ends, every UNINSTALL EXTENSION E waits for the
\* exclusive lock: it has staged, written, unloaded and committed nothing.
UninstallWaitsForCallingStatement ==
  \A thd \in Sessions, u \in Sessions :
    (/\ stmt[u].kind = "UNINSTALL"
     /\ CallsFunctionOf(thd, stmt[u].name))
    => /\ pc[u] = "uninstall_lock"
       /\ \A n \in DOMAIN vic : vic[n].uncommitted[u] = << >>
       /\ ~stmt[u].unloaded

\* a statement is at its rows while an uninstall that typed the name in the
\* other letter case waits for the lock
UninstallWaitingOnRows ==
  \E thd \in Sessions, u \in Sessions :
    /\ stmt[u].kind = "UNINSTALL"
    /\ pc[thd] = "call_rows"
    /\ CallsFunctionOf(thd, stmt[u].name)
    /\ stmt[u].name # stmt[thd].name
    /\ pc[u] = "uninstall_lock"


\* the EXTENSION locks the next step of the session asks for
RequestedLocks(thd) ==
  IF pc[thd] \in {"install_lock", "uninstall_lock"}
  THEN {MdlRequest(stmt[thd].name, "X")}
  ELSE IF pc[thd] = "ddl_lock"
  THEN lock_extensions_shared({},
         stmt[thd].to_add \o stmt[thd].to_remove \o
         [i \in DOMAIN stmt[thd].to_rename |->
            stmt[thd].to_rename[i].new_entry] \o
         stmt[thd].to_call)
  ELSE {}

\* the next step of s needs a lock that t holds: the Victionary guard, an
\* EXTENSION lock, or the metadata lock of the user table
WaitsFor(s, t) ==
  /\ s # t
  /\ \/ pc[s] \in GuardedPcs /\ m_lock = t
     \/ \E request \in RequestedLocks(s), l \in mdl[t] :
          /\ l.name = request.name
          /\ ~(request.type = "S" /\ l.type = "S")
     \/ /\ pc[s] \in {"create_table_lock", "drop_lock", "open_table",
                      "alter_lock"}
        /\ host.table_lock = t

\* C13: INSTALL / UNINSTALL EXTENSION and the DDL statements never deadlock
\* against each other: there is no set of sessions in which each waits for a
\* lock held by another one of the set.
NoWaitForCycle ==
  \A cycle \in (SUBSET Sessions) \ {{}} :
    ~(\A s \in cycle : \E t \in cycle \ {s} : WaitsFor(s, t))

\* a DDL statement holds the table's metadata lock and waits for the
\* shared lock of an extension that an UNINSTALL holds exclusively, while
\* the UNINSTALL itself waits for nothing the DDL statement holds
DdlWaitsForUninstall ==
  \E s \in Sessions, t \in Sessions :
    /\ pc[s] = "ddl_lock" /\ host.table_lock = s
    /\ stmt[t].kind = "UNINSTALL"
    /\ WaitsFor(s, t)
    /\ ~WaitsFor(t, s)


\* C14: after every install or uninstall transaction, committed or rolled
\* back, an Extension entry for (name, version) is committed if and only if
\* an ExtensionDescriptor for the same (name, version) is committed (in
\* every state in which no commit_all_tables is under way).
ExtensionAndDescriptorTogether ==
  (\A t \in Sessions : pc[t] # "commit_maps") =>
    /\ \A k \in DOMAIN vic.extensions.committed :
         LET ext_entry == vic.extensions.committed[k]
         IN ExtensionDescriptorKey(ext_entry.key.extension_name,
                                   ext_entry.extension_version).str
              \in DOMAIN vic.extension_descriptors.committed
    /\ \A k \in DOMAIN vic.extension_descriptors.committed :
         LET ext_desc == vic.extension_descriptors.committed[k]
             ext_entry == get_committed(vic.extensions.committed,
                            ExtensionKey(ext_desc.key.extension_name).str)
         IN /\ ext_entry # nullptr
            /\ ext_entry[1].extension_version = ext_desc.key.extension_version

\* an UNINSTALL EXTENSION E has found the entry and the descriptor of the
\* installed extension, has committed, and neither is left
UninstalledInOtherCase ==
  \E thd \in Sessions :
    /\ stmt[thd].kind = "UNINSTALL" /\ stmt[thd].txn = "committed"
    /\ stmt[thd].name = <<Ch.E>>
    /\ stmt[thd].to_unregister # 0
    /\ vic.extensions.committed = EmptyMap
    /\ vic.extension_descriptors.committed = EmptyMap


SameExtension(name, other) ==
  normalize_extension_name(name) = normalize_extension_name(other)

\* C15: INSTALL EXTENSION of a name whose Extension entry is committed is
\* rejected at the early check, having loaded and staged nothing, and its
\* rollback leaves the maps as they are; past the check nobody else can
\* have installed the name, and of two installs of one name at most one
\* commits.
InstallOfInstalledIsRejected ==
  /\ [][\A thd \in Sessions :
          /\ (install_check(thd) /\ IsInstalled(stmt[thd].name))
             => /\ pc'[thd] = "rollback"
                /\ stmt'[thd].registration = 0
                /\ \A n \in DOMAIN vic : vic'[n].uncommitted[thd] = << >>
                /\ <<vic', udfs', so_loaded'>> = <<vic, udfs, so_loaded>>
          /\ (/\ rollback_all_tables(thd)
              /\ stmt[thd].kind = "INSTALL" /\ stmt[thd].registration = 0)
             => <<vic', udfs', so_loaded'>> = <<vic, udfs, so_loaded>>]_vars
  /\ [](\A thd \in Sessions :
          (/\ stmt[thd].kind = "INSTALL"
           /\ pc[thd] \in {"install_load", "install_register", "install_mark",
                           "write", "commit"})
          => ~IsInstalled(stmt[thd].name))
  /\ [](\A s \in Sessions, t \in Sessions :
          (/\ s # t
           /\ stmt[s].kind = "INSTALL" /\ stmt[t].kind = "INSTALL"
           /\ SameExtension(stmt[s].name, stmt[t].name))
          => ~(stmt[s].txn = "committed" /\ stmt[t].txn = "committed"))

\* an INSTALL of a name that is installed under the other spelling has been
\* rejected at the early check and rolled back, and the committed entry is
\* still the one of the first spelling
RejectedInstallOfInstalled ==
  \E thd \in Sessions :
    /\ stmt[thd].kind = "INSTALL" /\ stmt[thd].txn = "rolled_back"
    /\ stmt[thd].registration = 0
    /\ IsInstalled(stmt[thd].name)
    /\ vic.extensions.committed[ExtensionKey(stmt[thd].name).str]
         .key.extension_name # stmt[thd].name

RefusedUninstall(thd) ==
  /\ stmt[thd].kind = "UNINSTALL"
  /\ stmt[thd].verdict \in {"not_installed", "columns", "in_use"}

\* the shared object of the installed extension is loaded and a VDF of it
\* is registered
LoadedAndRegistered(extension_name) ==
  /\ IsInstalled(extension_name)
  /\ LET version == vic.extensions.committed[ExtensionKey(extension_name).str]
                      .extension_version
         ext_desc == get_committed(vic.extension_descriptors.committed,
                       ExtensionDescriptorKey(extension_name, version).str)
     IN /\ ext_desc # nullptr
        /\ ext_desc[1].registration \in so_loaded
        /\ \E udf \in udfs : udf.registration = ext_desc[1].registration

\* C16: an UNINSTALL EXTENSION that is refused (not installed, a dependent
\* column, a type in use) makes its refusing step and its rollback without
\* changing any map, the loaded shared objects or the registered VDFs; it
\* has staged nothing, set nothing to unregister, unloaded nothing and does
\* not commit.
RefusedUninstallChangesNothing ==
  /\ [][\A thd \in Sessions :
          /\ (/\ pc[thd] = "uninstall_remove" /\ stmt[thd].kind = "UNINSTALL"
              /\ RefusedUninstall(thd)')
             => /\ pc'[thd] = "rollback"
                /\ <<vic', udfs', so_loaded'>> = <<vic, udfs, so_loaded>>
          /\ (rollback_all_tables(thd) /\ RefusedUninstall(thd))
             => <<vic', udfs', so_loaded'>> = <<vic, udfs, so_loaded>>]_vars
  /\ [](\A thd \in Sessions :
          RefusedUninstall(thd)
          => /\ \A n \in DOMAIN vic : vic[n].uncommitted[thd] = << >>
             /\ stmt[thd].to_unregister = 0
             /\ ~stmt[thd].unloaded
             /\ stmt[thd].txn # "committed")

\* an UNINSTALL EXTENSION refused for a dependent column has been rolled
\* back, and the extension is installed, loaded and registered as before
UninstallRefusedForColumn ==
  \E thd \in Sessions :
    /\ RefusedUninstall(thd) /\ stmt[thd].verdict = "columns"
    /\ stmt[thd].txn = "rolled_back"
    /\ LoadedAndRegistered(stmt[thd].name)


OpTypes(ops) == [i \in DOMAIN ops |-> ops[i].op_type]

SameOpType(n, op_type) == [i \in 1..n |-> op_type]

\* the ALTER TABLE of thd has committed a removal and an addition
CommittedCustomToCustom(thd) ==
  /\ stmt[thd].kind = "ALTER" /\ stmt[thd].txn = "committed"
  /\ stmt[thd].applied = 2

CommittedTypesOf(extension_name) ==
  {td.key : td \in {d \in MapRange(vic.type_descriptors.committed) :
                      SameExtension(d.key.extension_name, extension_name)}}

\* C18: an UNINSTALL EXTENSION E that has committed leaves E not installed;
\* an INSTALL EXTENSION E that finds E not installed passes the early check;
\* and every INSTALL EXTENSION E at version v that has committed, the first
\* and any further one, leaves as the committed TypeDescriptors of E exactly
\* those of the manifest, each pointing into the shared object it loaded.
ReinstallYieldsSameTypes ==
  /\ [](\A thd \in Sessions :
          (stmt[thd].kind = "UNINSTALL" /\ stmt[thd].txn = "committed")
          => ~IsInstalled(stmt[thd].name))
  /\ [][\A thd \in Sessions :
          (install_check(thd) /\ ~IsInstalled(stmt[thd].name))
          => pc'[thd] = "install_load"]_vars
  /\ [](\A thd \in Sessions :
          (stmt[thd].kind = "INSTALL" /\ stmt[thd].txn = "committed")
          => /\ IsInstalled(stmt[thd].name)
             /\ CommittedTypesOf(stmt[thd].name) =
                  {TypeDescriptorKey(ManifestType, stmt[thd].name,
                                     ManifestVersion)}
             /\ \A td \in MapRange(vic.type_descriptors.committed) :
                  /\ td.so = stmt[thd].registration
                  /\ td.so \in so_loaded)

\* a second INSTALL EXTENSION has committed: the shared object of the first
\* one, loaded as object 1, was unloaded by the UNINSTALL EXTENSION that
\* committed in between, and the only shared object loaded is the second
Reinstalled ==
  \E thd \in Sessions :
    /\ stmt[thd].kind = "INSTALL" /\ stmt[thd].txn = "committed"
    /\ stmt[thd].registration = 3
    /\ so_loaded = {3}
    /\ next_obj = 4


\* the list ends with an INSERT of an entry under k and an UPDATE that
\* renames it to k2
EndsWithRename(ops, k, k2) ==
  /\ Len(ops) >= 2
  /\ ops[Len(ops) - 1].op_type = "INSERT"
  /\ ops[Len(ops) - 1].entry[1].key.str = k
  /\ ops[Len(ops)].op_type = "UPDATE"
  /\ ops[Len(ops)].key.str = k
  /\ ops[Len(ops)].entry[1].key.str = k2

\* C19: when the list of a session ends with an entry staged under k and an
\* UPDATE that renames it to k2, get(S, k) and get(S, k2) both return the
\* renamed entry, and get_committed(k) returns neither staged entry: nothing
\* when k had no committed entry as S began to stage and nobody committed
\* since.  When that list is what the last commit applied, get_committed(k)
\* returns nothing and get_committed(k2) the renamed entry.
RenameVisibleUnderBothKeys ==
  \A thd \in MapSessions, k \in MapKeys, k2 \in MapKeys :
    k # k2 =>
    /\ LET ops == tmap.uncommitted[thd]
       IN EndsWithRename(ops, k, k2)
          => /\ get(tmap.committed, ops, k) = ops[Len(ops)].entry
             /\ get(tmap.committed, ops, k2) = ops[Len(ops)].entry
             /\ get_committed(tmap.committed, k) # ops[Len(ops)].entry
             /\ get_committed(tmap.committed, k) # ops[Len(ops) - 1].entry
             /\ (k \notin DOMAIN snap[thd] /\ clean[thd])
                => get_committed(tmap.committed, k) = nullptr
    /\ (last.kind = "commit" /\ EndsWithRename(last.ops, k, k2))
       => /\ get_committed(tmap.committed, k) = nullptr
          /\ get_committed(tmap.committed, k2) = last.ops[Len(last.ops)].entry

\* a session has staged an entry under b, which has no committed entry, and
\* its rename to a, and has committed them
RenameCommitted ==
  /\ last.kind = "commit"
  /\ EndsWithRename(last.ops, <<Ch.b>>, <<Ch.a>>)
  /\ <<Ch.b>> \notin DOMAIN last.pre
  /\ get_committed(tmap.committed, <<Ch.a>>) = last.ops[Len(last.ops)].entry


\* C20: an entry a statement obtained under the guard with a reference on
\* its arena stays alive and safe to dereference until the arena is cleared:
\* the reference is still on the arena, and what the entry, a TypeContext,
\* gives when it is read is the descriptor key it was obtained under.
AcquiredEntryStaysUsable ==
  \A thd \in Sessions :
    stmt[thd].tc # nullptr
    => /\ \E i \in DOMAIN arena[thd] : arena[thd][i] = stmt[thd].tc[1].id
       /\ DescriptorKeysOf(stmt[thd].tc[1]) =
            {stmt[thd].tc[1].key.descriptor_key}


\* the acquisitions of object o that are outstanding: the ref_holder copies
\* registered on the MEM_ROOTs and the copies the callers manage
Acquisitions(o) ==
  Cardinality({i \in DOMAIN owned : owned[i] = o}) +
  Cardinality({i \in DOMAIN roots["mem_root1"] : roots["mem_root1"][i] = o}) +
  Cardinality({i \in DOMAIN roots["mem_root2"] : roots["mem_root2"][i] = o})

\* C21: for every committed entry get_use_count is 1 plus the number of
\* outstanding acquisitions on it, so 1 when there is none; a successful
\* acquire or acquire_or_create raises the count of the entry it returns by
\* exactly one (a new entry gets 2), a failed one raises no count, and
\* clearing a MEM_ROOT lowers each count by the number of acquisitions that
\* were registered on it.
UseCountIsOnePlusAcquisitions ==
  /\ [](\A key_str \in DOMAIN rmap :
          use_count_of_key(rmap, use_count, key_str) =
            1 + Acquisitions(rmap[key_str]))
  /\ [][\A o \in Objects :
          /\ (ret'.call \in {"acquire", "acquire_or_create"})
             => use_count'[o] =
                  IF ret'.result = <<o>>
                  THEN (IF \E k \in DOMAIN rmap : rmap[k] = o
                        THEN use_count[o] + 1 ELSE 2)
                  ELSE IF use_count[o] = 0 /\ \E k \in DOMAIN rmap' : rmap'[k] = o
                  THEN 1
                  ELSE use_count[o]
          /\ (ret'.call = "Clear")
             => \E cleanup_scope \in MemRoots :
                  /\ roots'[cleanup_scope] = << >>
                  /\ use_count[o] - use_count'[o] =
                       Cardinality({i \in DOMAIN roots[cleanup_scope] :
                                      roots[cleanup_scope][i] = o})]_vars

\* a MEM_ROOT has been cleared and a committed entry is still acquired once,
\* on the other MEM_ROOT: its count is 2
OneOfTwoRootsCleared ==
  \E key_str \in DOMAIN rmap :
    /\ ret.call = "Clear"
    /\ use_count_of_key(rmap, use_count, key_str) = 2
    /\ Acquisitions(rmap[key_str]) = 1
    /\ owned = << >>


\* C22: acquire_or_create on a key that has a committed entry changes
\* nothing in the map and returns that entry; on a key that has none, given
\* a descriptor, it constructs exactly one new object, inserts it under the
\* key and returns it; it changes no other key, so calls repeated with one
\* key, from any MEM_ROOT, return one entry and no second one is created.
\* (When register_cleanup fails the call returns nothing.)
AcquireOrCreateIsGetOrConstruct ==
  [][ret'.call = "acquire_or_create" =>
       LET key_str == ret'.key
       IN /\ \A k \in DOMAIN rmap : k \in DOMAIN rmap' /\ rmap'[k] = rmap[k]
          /\ DOMAIN rmap' \subseteq DOMAIN rmap \cup {key_str}
          /\ key_str \in DOMAIN rmap
             => /\ rmap' = rmap
                /\ ret'.created = ret.created
                /\ ret'.result = IF ret'.register_ok THEN <<rmap[key_str]>>
                                 ELSE nullptr
          /\ (key_str \notin DOMAIN rmap /\ ret'.descriptor # nullptr)
             => /\ key_str \in DOMAIN rmap'
                /\ use_count[rmap'[key_str]] = 0
                /\ \A k \in DOMAIN rmap : rmap[k] # rmap'[key_str]
                /\ ret'.created = ret.created + 1
                /\ ret'.result = IF ret'.register_ok THEN <<rmap'[key_str]>>
                                 ELSE nullptr]_vars

\* acquire_or_create has been called for one key with each of the two
\* MEM_ROOTs; the second call found the entry the first one created and
\* returned it
SecondCallReturnedSameEntry ==
  /\ ret.call = "acquire_or_create"
  /\ ret.key \in DOMAIN ret.before
  /\ ret.result = <<rmap[ret.key]>>
  /\ ret.created = 1
  /\ roots["mem_root1"] = ret.result
  /\ roots["mem_root2"] = ret.result


\* C23: when acquire_or_create finds no committed entry and the factory
\* fails (no descriptor was supplied), the call returns nothing, the
\* committed map is unchanged, nothing is constructed, and no reference is
\* taken: every count and every list of holders stays as it was.
FailedCreateChangesNothing ==
  [][(/\ ret'.call = "acquire_or_create"
      /\ ret'.key \notin DOMAIN rmap
      /\ ret'.descriptor = nullptr)
     => /\ ret'.result = nullptr
        /\ rmap' = rmap
        /\ ret'.created = ret.created
        /\ use_count' = use_count
        /\ roots' = roots
        /\ owned' = owned]_vars

\* acquire_or_create has just been called without a descriptor for a key
\* that has no entry, while another key has an acquired entry
CreateFailedForAbsentKey ==
  /\ ret.call = "acquire_or_create"
  /\ ret.descriptor = nullptr
  /\ ret.register_ok
  /\ ret.key \notin DOMAIN ret.before
  /\ ret.key \notin DOMAIN rmap
  /\ \E k \in DOMAIN rmap : use_count[rmap[k]] = 2


\* C24: every step that changes the committed part of one of the six maps
\* is the commit of a session's staged operations on that map
\* (m_<map>.commit(thd) inside commit_all_tables); no other step changes
\* committed state.
CommittedChangesOnlyInCommit ==
  [][\A n \in DOMAIN vic :
       vic'[n].committed # vic[n].committed
       => \E thd \in Sessions : /\ pc[thd] = "commit_maps"
                                /\ m_lock = thd
                                /\ vic'[n] = commit(vic[n], thd)]_vars


\* C25: after commit(S) or rollback(S) the session S has nothing pending:
\* has_uncommitted(S) is false and get(S, k) equals get_committed(k) for
\* every key; the pending list of every other session is what it was before
\* the call.
CommitAndRollbackEmptyOwnListOnly ==
  [][\A thd \in MapSessions :
       (MapCommit(thd) \/ MapRollback(thd))
       => /\ ~has_uncommitted(tmap', thd)
          /\ \A k \in MapKeys :
               get(tmap'.committed, tmap'.uncommitted[thd], k) =
                 get_committed(tmap'.committed, k)
          /\ \A t \in MapSessions \ {thd} :
               tmap'.uncommitted[t] = tmap.uncommitted[t]]_vars

\* a session has just committed or rolled back a staged operation while the
\* other session still has one pending
FinishedBesidePendingSession ==
  /\ last.kind \in {"commit", "rollback"}
  /\ last.ops # << >>
  /\ ~has_uncommitted(tmap, last.thd)
  /\ tmap.committed = IF last.kind = "commit"
                      THEN commit_ops(last.pre, last.ops) ELSE last.pre
  /\ \E t \in MapSessions \ {last.thd} : has_uncommitted(tmap, t)


\* p is the beginning of the string s
StartsWith(s, p) == Len(p) <= Len(s) /\ SubSeq(s, 1, Len(p)) = p

\* the committed entries of the columns of table table of database db
ColumnsOfTable(db, table) ==
  {e \in MapRange(columns_committed) :
     /\ normalize_database_name(e.key.db) = normalize_database_name(db)
     /\ normalize_table_name(e.key.table) = normalize_table_name(table)}

\* the result of a scan of the committed map is exactly the entries whose
\* key string starts with the prefix, each once
ScanReturnsKeysWithPrefix ==
  scan.call # "none" =>
    /\ SeqRange(scan.result) =
         {columns_committed[k] : k \in {x \in DOMAIN columns_committed :
                                           StartsWith(x, scan.prefix_str)}}
    /\ \A i, j \in DOMAIN scan.result :
         scan.result[i] = scan.result[j] => i = j

\* C26: get_prefix_committed(p) returns exactly the committed entries whose
\* normalized key string starts with p, and so GetCustomColumnsForTable(db,
\* table) returns exactly the committed columns of that table.
PrefixScanReturnsColumnsOfTable ==
  /\ ScanReturnsKeysWithPrefix
  /\ scan.call = "GetCustomColumnsForTable"
     => SeqRange(scan.result) = ColumnsOfTable(scan.db, scan.table)


\* C27: when a statement that bound a VDF with a postrun callback has ended,
\* whether its binding or its rows ended in an error or not, postrun has
\* been called exactly once, and no user_data that prerun returned is left
\* unreleased.
PostrunOnceAtStatementEnd ==
  (vdf_stmt.pc = "done" /\ vdf_stmt.postrun)
  => /\ callbacks.postrun_calls = 1
     /\ ~callbacks.held



\* the type the parameter declares: custom_type of the function's extension
DeclaredType(expected_type) ==
  [type_name |-> expected_type.custom_type[1],
   extension_name |-> bind.extension_name]

\* C28: when the bind accepts the arguments, every argument of a parameter
\* that declares a custom type is SQL null, or came with the TypeContext of
\* the declared type, or is a constant string that resolved to the declared
\* type and was encoded; so every other argument is rejected.
AcceptedArgumentsMatchDeclaredType ==
  (bind.call # "none" /\ ~bind.error) =>
    \A i \in DOMAIN bind.args :
      LET expected_type == bind.signature[i]
          item == bind.args[i]
      IN (expected_type.id = "VEF_TYPE_CUSTOM" /\ expected_type.custom_type # nullptr)
         => \/ item.type = "NULL_ITEM"
            \/ /\ item.tc # nullptr
               /\ AreTypesCompatible(item.tc[1], DeclaredType(expected_type))
            \/ /\ item.type = "STRING_ITEM"
               /\ item.const_for_execution
               /\ item.tc = nullptr
               /\ DeclaredType(expected_type) \in bind.installed
               /\ bind.converted[i].tc = <<DeclaredType(expected_type)>>
               /\ bind.converted[i].encoded


\* C29: in every write_uncommitted_to_table, a staged DELETE that finds no
\* row with its key is logged as a warning and does not fail the write; a
\* DELETE whose index probe fails in another way, or whose row delete fails,
\* fails the write.
MissingRowDeleteIsWarning ==
  wres.call # "none" =>
    \A i \in DOMAIN wres.log :
      LET line == wres.log[i]
      IN line.op_type = "DELETE" =>
           /\ (~line.row_existed /\ line.failing \notin {"ha_index_init", "ha_index_read_map"})
              => line.warning /\ ~line.error
           /\ line.failing \in {"ha_index_init", "ha_index_read_map"}
              => line.error /\ wres.error
           /\ (line.row_existed /\ line.failing = "ha_delete_row")
              => line.error /\ wres.error
           /\ (line.row_existed /\ line.failing \notin {"ha_index_init", "ha_index_read_map", "ha_delete_row"})
              => ~line.error /\ ~line.warning

\* a write has succeeded in which a DELETE removed a row and a second
\* DELETE of the same key found none
RepeatedDeleteSucceeded ==
  /\ wres.call # "none"
  /\ ~wres.error
  /\ Len(wres.log) = 2
  /\ wres.log[1].op_type = "DELETE" /\ wres.log[1].row_existed
  /\ wres.log[2].op_type = "DELETE" /\ wres.log[2].key = wres.log[1].key
  /\ wres.log[2].warning
  /\ wres.log[1].key \notin rows


\* C30: at most one call of init succeeds; a call whose check finds the
\* Victionary initialized, or another init in progress, returns an error;
\* and once the Victionary is initialized no call of init changes the maps
\* or the initialized flag.
InitSucceedsAtMostOnce ==
  /\ [](/\ Cardinality({t \in InitThreads : caller[t].result = "ok"}) <= 1
        /\ \A t \in InitThreads :
             caller[t].saw \in {"initialized", "initializing"}
             => caller[t].result = "error" /\ caller[t].pc = "returned")
  /\ [][/\ m_initialized => m_initialized' /\ tables' = tables
        /\ \A t \in InitThreads :
             (caller'[t].saw \in {"initialized", "initializing"} /\ caller[t].saw = "none")
             => m_initialized' = m_initialized /\ tables' = tables]_vars

\* one call succeeded; a second call, which had read m_initialized before
\* the first one stored it and exchanged m_initializing after the first
\* one returned, was refused by reload_all_tables; a third was refused at
\* its first check
SecondInitRefusedAtReload ==
  \E t \in InitThreads, t2 \in InitThreads, t3 \in InitThreads :
    /\ caller[t].result = "ok"
    /\ caller[t2].pc = "returned" /\ caller[t2].saw = "clear"
    /\ caller[t2].result = "error" /\ caller[t2].thd # nullptr
    /\ lock_inits = 2
    /\ tables = [reloads |-> 1, complete |-> TRUE]
    /\ caller[t3].saw = "initialized"
    /\ m_initialized /\ ~m_initializing


(***************************************************************************)
(* Properties of key normalization (NormSpec)                              *)
(***************************************************************************)
\* the two names have the same components up to the case of letters
DifferOnlyInCase(a, b) ==
  \A i \in 1..3 : casedn(a[i]) = casedn(b[i])

\* C31: two column keys that differ only in letter case have the same key
\* string whenever lower_case_table_names is not 0; when it is 0 they have
\* the same key string exactly when their database and table names are
\* identical; two type keys that differ only in letter case always have the
\* same key string.
CaseFoldedKeysCoincide ==
  (norm.kind # "none" /\ DifferOnlyInCase(norm.a, norm.b)) =>
    IF norm.kind = "type" \/ norm.lower_case_table_names # 0
    THEN norm.key_a = norm.key_b
    ELSE (norm.key_a = norm.key_b) <=>
         (norm.a[1] = norm.b[1] /\ norm.a[2] = norm.b[2])

\* under the case-sensitive setting, two keys of the same database and
\* table whose column names differ in case got the same key string
SensitiveKeysDifferingInColumnCase ==
  /\ norm.kind = "column"
  /\ norm.lower_case_table_names = 0
  /\ DifferOnlyInCase(norm.a, norm.b)
  /\ norm.a[1] = norm.b[1] /\ norm.a[2] = norm.b[2]
  /\ norm.a[3] # norm.b[3]
  /\ norm.a[2] = <<Ch.T>>
  /\ norm.key_a = norm.key_b


(***************************************************************************)
(* Properties of Semver (SemverSpec)                                       *)
(***************************************************************************)
AllValid == sem.versions # << >> /\ \A i \in 1..3 : sem.versions[i].valid

\* the two versions have the same core and pre-release
SameButBuild(a, b) ==
  /\ a.major = b.major /\ a.minor = b.minor /\ a.patch = b.patch
  /\ a.prerelease = b.prerelease

ComparisonOperatorsAgree ==
  sem.results # << >> =>
    \A i \in 1..3, j \in 1..3 :
      /\ sem.results[i][j].gt = sem.results[j][i].lt
      /\ sem.results[i][j].ge = sem.results[j][i].le
      /\ sem.results[i][j].ne = ~sem.results[i][j].eq


(***************************************************************************)
(* Properties of the failure paths of INSTALL and UNINSTALL (Spec)         *)
(***************************************************************************)
\* C33: no session starts the rollback of its transaction, which takes the
\* write guard of the Victionary, while it still holds that guard itself.
RollbackStartsWithoutGuard ==
  \A thd \in Sessions : pc[thd] = "rollback" => m_lock # thd


\* the extension named in a type key has a committed ExtensionDescriptor
\* whose shared object is loaded
OwnerIsLoaded(descriptor_key) ==
  LET ext_desc == get_committed(vic.extension_descriptors.committed,
                    ExtensionDescriptorKey(descriptor_key.extension_name,
                      descriptor_key.extension_version).str)
  IN ext_desc # nullptr /\ ext_desc[1].registration \in so_loaded

\* C34: whenever no statement is under way, every committed TypeDescriptor
\* and every committed TypeContext belongs to an extension that has a
\* committed ExtensionDescriptor whose shared object is loaded.
TypesBelongToLoadedExtension ==
  (\A t \in Sessions : pc[t] = "idle") =>
    /\ \A k \in DOMAIN vic.type_descriptors.committed :
         OwnerIsLoaded(vic.type_descriptors.committed[k].key)
    /\ \A k \in DOMAIN vic.type_contexts.committed :
         OwnerIsLoaded(vic.type_contexts.committed[k].key.descriptor_key)


(***************************************************************************)
(* Properties of ALTER TABLE with RENAME TO (RenameSpec)                   *)
(***************************************************************************)
\* the keys of the custom columns of the user table as the host has it
TableColumnKeys ==
  {ColumnKey(UserDb, alt.table, c).str :
     c \in {x \in DOMAIN alt.columns : alt.columns[x]}}

\* C35: after the commit of an ALTER TABLE that renames the table and drops,
\* renames or adds custom columns, the committed Column entries are exactly
\* the custom columns of the resulting table, keyed under the new name.
AlterWithRenameLeavesColumnsOfNewTable ==
  (alt.pc = "altered" /\ alt.alter_info.new_table_name # nullptr) =>
    DOMAIN acols.committed = TableColumnKeys


(***************************************************************************)
(* Properties of a failed INSTALL EXTENSION (Spec)                         *)
(***************************************************************************)
\* C36: when an INSTALL EXTENSION has failed and its transaction is rolled
\* back, nothing of the extension remains: the session has no pending
\* operation in any map, no map has a committed descriptor of the
\* registration, the VDFs of the registration are not registered with the
\* UDF subsystem, and the shared object is not loaded.
FailedInstallLeavesNothing ==
  \A thd \in Sessions :
    (pc[thd] = "end" /\ stmt[thd].kind = "INSTALL"
     /\ stmt[thd].txn = "rolled_back") =>
      /\ \A n \in DOMAIN vic : vic[n].uncommitted[thd] = << >>
      /\ \A k \in DOMAIN vic.extension_descriptors.committed :
           vic.extension_descriptors.committed[k][1].registration
             # stmt[thd].registration
      /\ \A u \in udfs : u.registration # stmt[thd].registration
      /\ stmt[thd].registration \notin so_loaded


(***************************************************************************)
(* Properties of the column key strings (NormSpec)                         *)
(***************************************************************************)
\* the components of a column triple as the normalize functions leave them
\* under the setting the keys were built with
NormalizedTriple(x) ==
  <<IF norm.lower_case_table_names # 0 THEN casedn(x[1]) ELSE x[1],
    IF norm.lower_case_table_names # 0 THEN casedn(x[2]) ELSE x[2],
    casedn(x[3])>>

\* C39: two column triples that are distinct after component-wise
\* normalization have distinct key strings, and the key prefix of a table
\* is the start of the key strings of that table's columns only; also for
\* names that contain the '.' separator.
DistinctTriplesHaveDistinctKeys ==
  norm.kind = "column" =>
    LET na == NormalizedTriple(norm.a)
        nb == NormalizedTriple(norm.b)
    IN /\ na # nb => norm.key_a # norm.key_b
       /\ StartsWith(norm.key_b, norm.prefix_a) =>
            (na[1] = nb[1] /\ na[2] = nb[2])

\* a component of the triple contains the separator
HasDot(x) == \E i \in 1..3 : \E j \in DOMAIN x[i] : x[i][j] = Ch.dot

\* the same for names without the separator
DistinctPlainTriplesHaveDistinctKeys ==
  (norm.kind = "column" /\ ~HasDot(norm.a) /\ ~HasDot(norm.b)) =>
    LET na == NormalizedTriple(norm.a)
        nb == NormalizedTriple(norm.b)
    IN /\ na # nb => norm.key_a # norm.key_b
       /\ StartsWith(norm.key_b, norm.prefix_a) =>
            (na[1] = nb[1] /\ na[2] = nb[2])


(***************************************************************************)
(* Properties of the rows of custom_columns (RowSpec)                      *)
(***************************************************************************)
\* C37: between transactions the rows of custom_columns and the committed
\* Column entries correspond one to one, so that reading the rows back gives
\* the committed map; and in a write every update and delete probe finds the
\* row that was written for the entry, whatever the letter case of the
\* names.
RowsCorrespondToCommittedColumns ==
  /\ cwrite.pc = "idle" =>
       /\ {column_read_from_table(row).str : row \in crows}
            = DOMAIN ccols.committed
       /\ Cardinality(crows) = Cardinality(DOMAIN ccols.committed)
  /\ cwrite.pc = "written" =>
       \A i \in DOMAIN cwrite.log :
         cwrite.log[i].op_type # "INSERT" => cwrite.log[i].found

\* the same for entries whose names are all in lower case
LowerCaseRowsCorrespondToCommittedColumns ==
  (\A k \in DOMAIN ccols.committed :
     ccols.committed[k].key.column = casedn(ccols.committed[k].key.column)) =>
    RowsCorrespondToCommittedColumns


(***************************************************************************)
(* Properties of get() against commit() (MapSpec)                          *)
(***************************************************************************)
\* C38: whenever get(thd, key) returns an entry for a session that has
\* pending operations, a commit of the session at that point leaves this
\* entry in the committed map.
GetReturnsWhatCommitLeaves ==
  \A thd \in MapSessions :
    has_uncommitted(tmap, thd) =>
      \A k \in MapKeys :
        LET e == get(tmap.committed, tmap.uncommitted[thd], k)
            after == commit(tmap, thd).committed
        IN e # nullptr => \E kk \in DOMAIN after : after[kk] = e[1]

\* the session has staged an UPDATE that moves an entry to another key
HasRenamingUpdate(thd) ==
  \E i \in DOMAIN tmap.uncommitted[thd] :
    LET op == tmap.uncommitted[thd][i]
    IN /\ op.op_type = "UPDATE"
       /\ op.key.str # EmptyStr
       /\ op.key.str # op.entry[1].key.str

\* the same for sessions whose operations keep every entry at its key: the
\* entry is then left at the key it was asked for
GetReturnsWhatCommitLeavesAtKey ==
  \A thd \in MapSessions :
    (has_uncommitted(tmap, thd) /\ ~HasRenamingUpdate(thd)) =>
      \A k \in MapKeys :
        LET e == get(tmap.committed, tmap.uncommitted[thd], k)
            after == commit(tmap, thd).committed
        IN e # nullptr => (k \in DOMAIN after /\ after[k] = e[1])

====
